---- MODULE Spec2Model ----
(***************************************************************************)
(* Model of the monify agent: the bounded samplers of                      *)
(* internal/metrics/dynamic (CPU, memory, disk I/O, network), their        *)
(* reducers, and the agent control loop of internal/agent.                 *)
(*                                                                         *)
(* Spec           one sampler instance (its kind is fixed in Init), its    *)
(*                background loop, and two concurrent Collect callers.     *)
(* SpecRestart    the CPU sampler when Start is called twice.              *)
(* SpecLive       the CPU sampler started once, with fair scheduling.      *)
(* SpecReduce     the reductions of Collect applied to given batches.      *)
(* SpecDyn        the fan-out of DynamicCollector.Collect.                 *)
(* SpecNet        the network goroutine of that fan-out on the running     *)
(*                network sampler.                                         *)
(* SpecAgent      the agent control loop (Agent.Start, collectAndSend,     *)
(*                Stop); SpecAgentLive adds fair scheduling.               *)
(* SpecStartStop  the agent when Start is called again after it returned.  *)
(* SpecBrokenHost the agent control loop on a machine where every static   *)
(*                probe and every dynamic sub-collection fails.            *)
(***************************************************************************)
EXTENDS Integers, Sequences, FiniteSets, TLC

\* History buffer capacity.  The source sets maxSamples = 600 (cpu.go:13);
\* the model runs the same code at a small capacity so that eviction is reached.
maxSamples == 2

\* The sampler clock stops after MaxTime one-second ticks.
MaxTime == 3

Kinds == {"cpu", "memory", "diskio", "network"}
\* Start can be called twice on one sampler: the goroutines it spawns
LoopIds == {1, 2}
Callers == {"c1", "c2"}

Min(a, b) == IF a < b THEN a ELSE b

----------------------------------------------------------------------------
(* float64 results are kept as exact fractions <<numerator, denominator>>. *)

RECURSIVE GCD(_, _)
GCD(a, b) == IF b = 0 THEN a ELSE GCD(b, a % b)

Rat(n, d) == LET g == GCD(n, d) IN IF g = 0 THEN <<0, 1>> ELSE <<n \div g, d \div g>>
RatZero == <<0, 1>>
RatAdd(x, y) ==
  LET g == GCD(x[2], y[2])
      l == (x[2] \div g) * y[2]
  IN Rat(x[1] * (l \div x[2]) + y[1] * (l \div y[2]), l)
RatDiv(x, k) == LET g == GCD(x[1], k) IN Rat(x[1] \div g, x[2] * (k \div g))

RECURSIVE SumSeq(_, _, _)
SumSeq(F(_), s, i) == IF i > Len(s) THEN 0 ELSE F(s[i]) + SumSeq(F, s, i + 1)

----------------------------------------------------------------------------
(* What the operating system can answer to one query of a sampler.         *)

Devices == {"sda"}
Ifaces == {"eth0", "eth1"}

\* cpu.Percent(0, false): an error, an empty list, or one percentage.
CpuAnswers == {[err |-> TRUE, percentages |-> <<>>],
               [err |-> FALSE, percentages |-> <<>>],
               [err |-> FALSE, percentages |-> <<0>>],
               [err |-> FALSE, percentages |-> <<50>>]}

\* load.Avg: an error or the three load averages.
LoadAnswers == {[err |-> TRUE, Load1 |-> 0, Load5 |-> 0, Load15 |-> 0],
                [err |-> FALSE, Load1 |-> 0, Load5 |-> 0, Load15 |-> 0],
                [err |-> FALSE, Load1 |-> 3, Load5 |-> 2, Load15 |-> 1]}

VMem(u) == [total |-> 8, used |-> u, free |-> 8 - u, available |-> 7 - u,
            usedPercent |-> (100 * u) \div 8, cached |-> 1, buffers |-> 1]
\* mem.VirtualMemory: an error or the memory figures.
MemAnswers == {[err |-> TRUE, vmem |-> VMem(0)],
               [err |-> FALSE, vmem |-> VMem(2)],
               [err |-> FALSE, vmem |-> VMem(5)]}

\* disk.IOCounters when the host has moved b units of I/O since boot.
DiskCounters(b) == [d \in Devices |->
  [readBytes |-> b, writeBytes |-> 2 * b, readCount |-> 3 * b, writeCount |-> 4 * b]]

\* net.IOCounters(true) when the host has moved b units of traffic since boot.
NetCounters(b) == [i \in Ifaces |->
  [bytesSent |-> b, bytesRecv |-> 2 * b,
   errorsIn |-> b, errorsOut |-> 0, dropsIn |-> 0, dropsOut |-> b]]

NoSample == [id |-> 0, ts |-> 0, v |-> 0]

----------------------------------------------------------------------------
(* Unsigned counter arithmetic.  Go's uint64 wraps at 2^64; the model      *)
(* wraps at Uint64 and keeps every counter below it.                       *)
Uint64 == 32

\* Fault: a counter that went down gives a delta of zero.
SaturatingSub(a, b) == IF a < b THEN 0 ELSE a - b

U64Sub(a, b) == (a - b + Uint64) % Uint64
U64Add(a, b) == (a + b) % Uint64

RECURSIVE SumSet(_, _)
SumSet(F(_), S) ==
  IF S = {} THEN 0
  ELSE LET x == CHOOSE y \in S : TRUE IN U64Add(F(x), SumSet(F, S \ {x}))

RECURSIVE RatSum(_, _)
RatSum(F(_), S) ==
  IF S = {} THEN RatZero
  ELSE LET x == CHOOSE y \in S : TRUE IN RatAdd(F(x), RatSum(F, S \ {x}))

\* the map lookup m[k] of Go, "" for a missing key
Lookup(m, k) == IF k \in DOMAIN m THEN m[k] ELSE ""

----------------------------------------------------------------------------
(* The reducers: what Collect computes from the drained batch.             *)

CPUZero == [err |-> FALSE, UsagePercent |-> RatZero, LoadAvg1m |-> RatZero,
            LoadAvg5m |-> RatZero, LoadAvg15m |-> RatZero]

\* CPUCollector.Collect, after the drain
CPUReduce(batch, loadAvg) ==
  [err |-> FALSE,
   UsagePercent |-> IF Len(batch) > 0
                    THEN Rat(SumSeq(LAMBDA s : s.v, batch, 1), Len(batch))
                    ELSE RatZero,
   LoadAvg1m |-> Rat(loadAvg.Load1, 1),
   LoadAvg5m |-> Rat(loadAvg.Load5, 1),
   LoadAvg15m |-> Rat(loadAvg.Load15, 1)]

\* Fault: the sums are divided by the capacity of the buffer.
MemCapacity(batch) == maxSamples

\* the divisor MemoryCollector.Collect uses for its averages
MemCount(batch) == Len(batch)

MemoryZero == [err |-> FALSE, Total |-> 0, Used |-> 0, Free |-> 0, Available |-> 0,
               UsedPercent |-> RatZero, Cached |-> 0, Buffers |-> 0]

\* Fault: an empty batch is reduced to zeros instead of being replaced by a
\* fresh query.
MemoryNoFallback(answer) == MemoryZero

\* MemoryCollector.Collect on an empty batch: the instantaneous query
MemoryFresh(answer) ==
  IF answer.err
  THEN [err |-> TRUE]
  ELSE [err |-> FALSE, Total |-> answer.vmem.total, Used |-> answer.vmem.used,
        Free |-> answer.vmem.free, Available |-> answer.vmem.available,
        UsedPercent |-> Rat(answer.vmem.usedPercent, 1),
        Cached |-> answer.vmem.cached, Buffers |-> answer.vmem.buffers]

\* MemoryCollector.Collect, after the drain; answer is the instantaneous query
\* made when the batch is empty
MemoryReduce(batch, answer) ==
  IF Len(batch) = 0
  THEN MemoryFresh(answer)
  ELSE LET count == MemCount(batch) IN
       [err |-> FALSE,
        Total |-> SumSeq(LAMBDA s : s.v.total, batch, 1) \div count,
        Used |-> SumSeq(LAMBDA s : s.v.used, batch, 1) \div count,
        Free |-> SumSeq(LAMBDA s : s.v.free, batch, 1) \div count,
        Available |-> SumSeq(LAMBDA s : s.v.available, batch, 1) \div count,
        UsedPercent |-> Rat(SumSeq(LAMBDA s : s.v.usedPercent, batch, 1), Len(batch)),
        Cached |-> SumSeq(LAMBDA s : s.v.cached, batch, 1) \div count,
        Buffers |-> SumSeq(LAMBDA s : s.v.buffers, batch, 1) \div count]

\* the consecutive pairs (i-1, i) the rate loops do not skip
ValidPairs(batch) == {i \in 2..Len(batch) : batch[i].ts - batch[i - 1].ts > 0}

\* Fault: every consecutive pair counts in the divisor, skipped or not.
PairCount(batch) == Len(batch) - 1

\* rateCount: the pairs that were not skipped
RateCount(batch) == Cardinality(ValidPairs(batch))

\* Fault: a pair whose two samples list different devices contributes nothing.
OnlyIfSameDevices(prev, curr) ==
  IF DOMAIN prev.v = DOMAIN curr.v THEN DOMAIN curr.v ELSE {}

\* the devices (interfaces) of curr that prev has too
InBoth(prev, curr) == {d \in DOMAIN curr.v : d \in DOMAIN prev.v}

\* float64(delta) / duration / 1024 / 1024
MBps(bytes, duration) == Rat(bytes, duration * 1024 * 1024)

\* Fault: bytes are not turned into bits.
MBytesPerSec(bytes, duration) == Rat(bytes, duration * 1000000)

\* float64(delta) * 8 / duration / 1_000_000
Mbps(bytes, duration) == Rat(bytes * 8, duration * 1000000)

\* Fault: a batch that yields no rate is reported as an error.
DiskIOFailed == [err |-> TRUE]

\* &models.DiskIOMetrics{}: every rate zero, and a nil error
DiskIOZero == [err |-> FALSE, ReadMBps |-> RatZero, WriteMBps |-> RatZero,
               ReadIOPS |-> RatZero, WriteIOPS |-> RatZero]

\* DiskIOCollector.Collect, after the drain
DiskIOReduce(batch) ==
  IF Len(batch) < 2 THEN DiskIOZero
  ELSE
    LET duration(i) == batch[i].ts - batch[i - 1].ts
        delta(i, f(_)) == SumSet(LAMBDA d : U64Sub(f(batch[i].v[d]), f(batch[i - 1].v[d])),
                                 InBoth(batch[i - 1], batch[i]))
        readMBps(i) == MBps(delta(i, LAMBDA st : st.readBytes), duration(i))
        writeMBps(i) == MBps(delta(i, LAMBDA st : st.writeBytes), duration(i))
        readIOPS(i) == Rat(delta(i, LAMBDA st : st.readCount), duration(i))
        writeIOPS(i) == Rat(delta(i, LAMBDA st : st.writeCount), duration(i))
        pairs == ValidPairs(batch)
        rateCount == RateCount(batch)
    IN IF rateCount > 0
       THEN [err |-> FALSE,
             ReadMBps |-> RatDiv(RatSum(readMBps, pairs), rateCount),
             WriteMBps |-> RatDiv(RatSum(writeMBps, pairs), rateCount),
             ReadIOPS |-> RatDiv(RatSum(readIOPS, pairs), rateCount),
             WriteIOPS |-> RatDiv(RatSum(writeIOPS, pairs), rateCount)]
       ELSE DiskIOZero

NetworkZero == [err |-> FALSE, SendMbps |-> RatZero, RecvMbps |-> RatZero,
                TotalSentGB |-> RatZero, TotalRecvGB |-> RatZero]

\* NetworkCollector.collectByType, after the drain
NetworkReduce(batch, types, ifaceType) ==
  IF Len(batch) < 2 THEN NetworkZero
  ELSE
    LET lastSample == batch[Len(batch)]
        matching(smp) == {i \in DOMAIN smp.v : Lookup(types, i) = ifaceType}
        totalSentBytes == SumSet(LAMBDA i : lastSample.v[i].bytesSent, matching(lastSample))
        totalRecvBytes == SumSet(LAMBDA i : lastSample.v[i].bytesRecv, matching(lastSample))
        duration(i) == batch[i].ts - batch[i - 1].ts
        delta(i, f(_)) == SumSet(LAMBDA n : U64Sub(f(batch[i].v[n]), f(batch[i - 1].v[n])),
                                 matching(batch[i]) \cap InBoth(batch[i - 1], batch[i]))
        sendMbps(i) == Mbps(delta(i, LAMBDA st : st.bytesSent), duration(i))
        recvMbps(i) == Mbps(delta(i, LAMBDA st : st.bytesRecv), duration(i))
        pairs == ValidPairs(batch)
        rateCount == RateCount(batch)
    IN [err |-> FALSE,
        SendMbps |-> IF rateCount > 0 THEN RatDiv(RatSum(sendMbps, pairs), rateCount)
                     ELSE RatZero,
        RecvMbps |-> IF rateCount > 0 THEN RatDiv(RatSum(recvMbps, pairs), rateCount)
                     ELSE RatZero,
        TotalSentGB |-> Rat(totalSentBytes, 1000000000),
        TotalRecvGB |-> Rat(totalRecvBytes, 1000000000)]

----------------------------------------------------------------------------
VARIABLES
  kind,            \* which collector this instance is
  samples,         \* c.samples, the history buffer
  interfaceTypes,  \* n.interfaceTypes, the classification cache (network)
  mu,              \* c.mu: <<>> when free, else the caller holding it
  ctx,             \* c.ctx / c.cancel: 0 when nil, else the context's number
  cancelled,       \* the contexts whose cancel function has been called
  loops,           \* the background goroutines started by Start
  tick,            \* per loop: its ticker channel holds a tick
  now,             \* wall clock, in seconds
  callers,         \* the goroutines calling Collect
  appended,        \* history: number of samples appended so far
  evicted,         \* history: ids of the samples dropped by the capacity cap
  handed,          \* history: id -> number of Collect calls it was handed to
  sinceDrain,      \* history: appends since the last drain
  lastDrain        \* history: operation of the last drain ("" when none yet)

svars == <<kind, samples, interfaceTypes, mu, ctx, cancelled, loops, tick, now,
           callers, appended, evicted, handed, sinceDrain, lastDrain>>

VARIABLES
  pc,              \* where the goroutine running Agent.Start is
  running,         \* a.running
  authFailed,      \* a.authFailed
  lastCollection,  \* a.lastCollection (0 is the zero time)
  lastSend,        \* a.lastSend (0 is the zero time)
  metricsCount,    \* a.metricsCount
  errorCount,      \* a.errorCount
  stopChan,        \* a.stopChan: "open" or "closed"
  senderClosed,    \* sender.Close has been called
  dyn,             \* the samplers of a.dynamicCollector: "new", "started", "stopped"
  cache,           \* staticCollector.cache is not nil
  lastRefresh,     \* staticCollector.lastRefresh (0 is the zero time)
  staticMetrics,   \* the local staticMetrics of collectAndSend is not nil
  clock,           \* wall clock of the agent, in half hours, starting at 1
  tickerC,         \* the 15 s ticker's channel holds a tick
  ctxDone,         \* the context passed to Start is cancelled
  sigChan,         \* the agent's signal channel: "" or the signal it holds
  mainSig,         \* main's signal goroutine: "waiting", "got", "done"
  uninstall,       \* the uninstall goroutine: "none", "sleeping", "run"
  exitCode,        \* exit status of the process, -1 while it runs
  startReturned,   \* Agent.Start has returned (to main)
  cycles,          \* history: collectAndSend calls so far
  sent,            \* history: the payloads handed to sender.Send
  lastStatus,      \* history: the status sender.Send got last, -1 before any
  host             \* the machine: "any", or "broken" when every probe fails on it

avars == <<pc, running, authFailed, lastCollection, lastSend, metricsCount, errorCount,
           stopChan, senderClosed, dyn, cache, lastRefresh, staticMetrics, clock,
           tickerC, ctxDone, sigChan, mainSig, uninstall, exitCode, startReturned,
           cycles, sent, lastStatus, host>>

VARIABLES
  dpc,             \* the goroutine in DynamicCollector.Collect: "idle", "wait", "returned"
  gor,             \* the goroutines Collect spawns: where each is, and at which field
  outcome,         \* history: per field, what its collector returned: "", "ok", "err"
  result,          \* the fields of result: "nil" or the value written
  dret,            \* what DynamicCollector.Collect returned
  net              \* the network goroutine of Collect on the live sampler: how many
                   \* of its three calls have returned and what they returned;
                   \* history: the appends since the last drain that each one met

dvars == <<dpc, gor, outcome, result, dret, net>>

VARIABLES
  rin,             \* a drained batch and what else Collect reads to reduce it
  rout             \* what Collect returns for it, NoResult before the call

rvars == <<rin, rout>>

vars == <<svars, avars, dvars, rvars>>

\* &models.NetworkHealthMetrics{}
NetworkHealthZero == [err |-> FALSE, ErrorsIn |-> 0, ErrorsOut |-> 0, DropsIn |-> 0,
                      DropsOut |-> 0]

\* NetworkCollector.CollectHealth: the counters of the newest buffered sample,
\* summed over all its interfaces
CollectHealth(buf) ==
  IF Len(buf) = 0 THEN NetworkHealthZero
  ELSE LET lastSample == buf[Len(buf)]
           all == DOMAIN lastSample.v
       IN [err |-> FALSE,
           ErrorsIn |-> SumSet(LAMBDA i : lastSample.v[i].errorsIn, all),
           ErrorsOut |-> SumSet(LAMBDA i : lastSample.v[i].errorsOut, all),
           DropsIn |-> SumSet(LAMBDA i : lastSample.v[i].dropsIn, all),
           DropsOut |-> SumSet(LAMBDA i : lastSample.v[i].dropsOut, all)]

----------------------------------------------------------------------------
(* The sampler: Start, Stop, the background loop and sample().             *)

\* Fault: Lock that never waits.
NoMutex(m) == TRUE

\* sync.Mutex: Lock returns only when nobody holds the mutex
MutexFree(m) == m = <<>>

IfaceOrder == <<"eth0", "eth1">>

\* what net.InterfaceByName and iface.Addrs can answer for one interface
IfaceLookups == {[err |-> TRUE, addrs |-> <<>>],
                 [err |-> FALSE, addrs |-> <<>>],
                 [err |-> FALSE, addrs |-> <<"loopback", "public">>],
                 [err |-> FALSE, addrs |-> <<"unparsable", "rfc1918", "public">>],
                 [err |-> FALSE, addrs |-> <<"unspecified", "ula">>]}

\* isPrivateIP
isPrivateIP(ip) == ip \in {"rfc1918", "ula"}

\* NetworkCollector.classifyInterface
classifyInterface(lookup) ==
  IF lookup.err THEN "private"
  ELSE LET usable == {j \in 1..Len(lookup.addrs) :
                        lookup.addrs[j] \notin {"unparsable", "loopback", "unspecified"}}
       IN IF usable = {} THEN "private"
          ELSE LET first == CHOOSE j \in usable : \A k \in usable : j <= k
               IN IF isPrivateIP(lookup.addrs[first]) THEN "private" ELSE "public"

\* Fault: sample() without the cap.
AppendUncapped(buf, smp) == Append(buf, smp)

\* Fault: on a full buffer the new sample takes the place of the newest one.
AppendEvictsNewest(buf, smp) ==
  IF Len(buf) >= maxSamples
  THEN Append(SubSeq(buf, 1, maxSamples - 1), smp)
  ELSE Append(buf, smp)

\* the append and the cap of sample()
AppendCapped(buf, smp) ==
  LET a == Append(buf, smp)
  IN IF Len(a) > maxSamples THEN SubSeq(a, Len(a) - maxSamples + 1, Len(a)) ELSE a

Ids(buf) == {buf[i].id : i \in 1..Len(buf)}

IdleLoop == [pc |-> "none", wait |-> 0, smp |-> NoSample, i |-> 0]
IdleCaller == [pc |-> "idle", op |-> "", batch |-> <<>>, types |-> [i \in Ifaces |-> ""],
               loadAvg |-> [err |-> FALSE, Load1 |-> 0, Load5 |-> 0, Load15 |-> 0],
               ret |-> [err |-> FALSE], n |-> 0, after |-> ""]

SamplerInit ==
  /\ kind \in Kinds
  /\ samples = <<>>
  /\ interfaceTypes = [i \in Ifaces |-> ""]
  /\ mu = <<>>
  /\ ctx = 0
  /\ cancelled = {}
  /\ loops = [l \in LoopIds |-> IdleLoop]
  /\ tick = [l \in LoopIds |-> FALSE]
  /\ now = 0
  /\ callers = [c \in Callers |-> IdleCaller]
  /\ appended = 0
  /\ evicted = {}
  /\ handed = [id \in {} |-> 0]
  /\ sinceDrain = 0
  /\ lastDrain = ""

Running(l) == loops[l].pc \notin {"none", "exit"}

\* The loop evaluates c.ctx.Done() each time it enters the select.  c.ctx is
\* read without synchronisation: once Start has been called again the read
\* yields the context the loop saw before or the current one.
CtxReads(l, cur) == {IF loops[l].wait = 0 THEN l ELSE loops[l].wait, cur}

\* Start: a new context replaces c.ctx and c.cancel, and a new loop is spawned
\* and enters its select
Start ==
  /\ ctx + 1 \in LoopIds
  /\ ctx' = ctx + 1
  /\ loops' = [loops EXCEPT ![ctx + 1] = [IdleLoop EXCEPT !.pc = "select", !.wait = ctx + 1]]
  /\ UNCHANGED <<kind, samples, interfaceTypes, mu, cancelled, tick, now,
                 callers, appended, evicted, handed, sinceDrain, lastDrain>>
  /\ UNCHANGED <<avars, dvars, rvars>>

\* Start on a sampler that has not been started before
StartOnce == ctx = 0 /\ Start

\* Fault: Stop cancels every context the sampler ever made.
StopAll ==
  /\ cancelled' = 1..ctx
  /\ UNCHANGED <<kind, samples, interfaceTypes, mu, ctx, loops, tick, now,
                 callers, appended, evicted, handed, sinceDrain, lastDrain>>
  /\ UNCHANGED <<avars, dvars, rvars>>

\* Fault: Stop without the nil check calls through c.cancel even when it is nil.
StopUnguarded ==
  /\ cancelled' = cancelled \cup {ctx}
  /\ UNCHANGED <<kind, samples, interfaceTypes, mu, ctx, loops, tick, now,
                 callers, appended, evicted, handed, sinceDrain, lastDrain>>
  /\ UNCHANGED <<avars, dvars, rvars>>

\* Stop: cancels the context c.cancel belongs to, if there is one
Stop ==
  /\ IF ctx # 0 THEN cancelled' = cancelled \cup {ctx} ELSE cancelled' = cancelled
  /\ UNCHANGED <<kind, samples, interfaceTypes, mu, ctx, loops, tick, now,
                 callers, appended, evicted, handed, sinceDrain, lastDrain>>
  /\ UNCHANGED <<avars, dvars, rvars>>

\* one second passes: every live ticker offers a tick
ClockTick ==
  /\ now < MaxTime
  /\ now' = now + 1
  /\ tick' = [l \in LoopIds |-> Running(l) \/ tick[l]]
  /\ UNCHANGED <<kind, samples, interfaceTypes, mu, ctx, cancelled, loops,
                 callers, appended, evicted, handed, sinceDrain, lastDrain>>
  /\ UNCHANGED <<avars, dvars, rvars>>

\* Fault: a loop whose select has no cancellation case.
LoopIgnoresCancel(l) == FALSE /\ UNCHANGED vars

\* case <-c.ctx.Done(): return (the deferred ticker.Stop runs)
LoopDone(l) ==
  /\ loops[l].pc = "select"
  /\ loops[l].wait \in cancelled
  /\ loops' = [loops EXCEPT ![l].pc = "exit"]
  /\ tick' = [tick EXCEPT ![l] = FALSE]
  /\ UNCHANGED <<kind, samples, interfaceTypes, mu, ctx, cancelled, now,
                 callers, appended, evicted, handed, sinceDrain, lastDrain>>
  /\ UNCHANGED <<avars, dvars, rvars>>

\* the OS query of sample(): ok says whether it succeeded, v what it read.
\* A failed query returns to the select.
TakeSample(l, ok, v) ==
  IF ~ok
  THEN \E w \in CtxReads(l, ctx) :
         loops' = [loops EXCEPT ![l].pc = "select", ![l].wait = w]
  ELSE loops' = [loops EXCEPT ![l] =
         IF kind = "network"
         THEN [@ EXCEPT !.pc = "classify", !.i = 1, !.smp = [id |-> 0, ts |-> 0, v |-> v]]
         ELSE [@ EXCEPT !.pc = "lock", !.smp = [id |-> 0, ts |-> now, v |-> v]]]

\* Fault: a tick appends a zero placeholder instead of querying.
LoopTickPlaceholder(l) ==
  /\ loops[l].pc = "select"
  /\ tick[l]
  /\ tick' = [tick EXCEPT ![l] = FALSE]
  /\ samples' = Append(samples, NoSample)
  /\ UNCHANGED <<kind, interfaceTypes, mu, ctx, cancelled, loops, now,
                 callers, appended, evicted, handed, sinceDrain, lastDrain>>
  /\ UNCHANGED <<avars, dvars, rvars>>

\* case <-ticker.C: c.sample(), up to the OS query
LoopTick(l) ==
  /\ loops[l].pc = "select"
  /\ tick[l]
  /\ tick' = [tick EXCEPT ![l] = FALSE]
  /\ CASE kind = "cpu" ->
            \E a \in CpuAnswers :
              TakeSample(l, ~a.err /\ Len(a.percentages) # 0,
                         IF Len(a.percentages) # 0 THEN a.percentages[1] ELSE 0)
       [] kind = "memory" -> \E a \in MemAnswers : TakeSample(l, ~a.err, a.vmem)
       [] kind = "diskio" -> \E ok \in BOOLEAN : TakeSample(l, ok, DiskCounters(now))
       [] kind = "network" -> \E ok \in BOOLEAN : TakeSample(l, ok, NetCounters(now))
  /\ UNCHANGED <<kind, samples, interfaceTypes, mu, ctx, cancelled, now,
                 callers, appended, evicted, handed, sinceDrain, lastDrain>>
  /\ UNCHANGED <<avars, dvars, rvars>>

\* Fault: the interface is classified again at every sample.
Reclassified(types, name, lookup) == [types EXCEPT ![name] = classifyInterface(lookup)]

\* Fault: sample() records the counters without classifying the interface.
NeverClassified(types, name, lookup) == types

\* if _, exists := n.interfaceTypes[name]; !exists { ... = n.classifyInterface(name) }
Classified(types, name, lookup) ==
  IF types[name] = ""
  THEN [types EXCEPT ![name] = classifyInterface(lookup)]
  ELSE types

\* network sample(): the interface is classified on first encounter, under the
\* lock; after the last interface the sample is stamped with time.Now()
LoopClassify(l) ==
  /\ loops[l].pc = "classify"
  /\ MutexFree(mu)
  /\ \E lookup \in IfaceLookups :
       interfaceTypes' = Classified(interfaceTypes, IfaceOrder[loops[l].i], lookup)
  /\ loops' = [loops EXCEPT ![l] =
       IF loops[l].i = Len(IfaceOrder)
       THEN [@ EXCEPT !.pc = "lock", !.i = 0, !.smp.ts = now]
       ELSE [@ EXCEPT !.i = @ + 1]]
  /\ UNCHANGED <<kind, samples, mu, ctx, cancelled, tick, now,
                 callers, appended, evicted, handed, sinceDrain, lastDrain>>
  /\ UNCHANGED <<avars, dvars, rvars>>

\* the critical section of sample(): lock, append, cap, unlock; then the loop
\* is back in its select
LoopAppend(l) ==
  /\ loops[l].pc = "lock"
  /\ MutexFree(mu)
  /\ LET smp == [loops[l].smp EXCEPT !.id = appended + 1] IN
       /\ samples' = AppendCapped(samples, smp)
       /\ evicted' = evicted \cup ((Ids(samples) \cup {smp.id}) \ Ids(samples'))
  /\ appended' = appended + 1
  /\ handed' = [id \in 1..(appended + 1) |-> IF id <= appended THEN handed[id] ELSE 0]
  /\ sinceDrain' = sinceDrain + 1
  /\ \E w \in CtxReads(l, ctx) :
       loops' = [loops EXCEPT ![l].pc = "select", ![l].wait = w, ![l].smp = NoSample]
  /\ UNCHANGED <<kind, interfaceTypes, mu, ctx, cancelled, tick, now, callers, lastDrain>>
  /\ UNCHANGED <<avars, dvars, rvars>>

----------------------------------------------------------------------------
(* Collect: the consuming read.                                            *)

Ops == IF kind = "network" THEN {"public", "private"} ELSE {"collect"}

\* Fault: the drain keeps the newest sample for the next rate pair.
KeepLast(buf) == IF Len(buf) = 0 THEN buf ELSE <<buf[Len(buf)]>>

\* Fault: the drain copies the buffer and does not reset it.
NotCleared(buf) == buf

\* c.samples = c.samples[:0]
Cleared(buf) == <<>>

\* what Collect returns for the drained batch; answer is the instantaneous
\* memory query made when the memory batch is empty
Reduce(c, answer) ==
  CASE kind = "cpu" -> CPUReduce(callers[c].batch, callers[c].loadAvg)
    [] kind = "memory" -> MemoryReduce(callers[c].batch, answer)
    [] kind = "diskio" -> DiskIOReduce(callers[c].batch)
    [] kind = "network" -> NetworkReduce(callers[c].batch, callers[c].types, callers[c].op)

\* Fault: CPU Collect empties the buffer before it asks for the load averages.
CallDrainsFirst(c) ==
  /\ callers[c].pc = "idle"
  /\ \E op \in Ops, a \in LoadAnswers :
       /\ callers' = [callers EXCEPT ![c] =
            IF kind = "cpu" /\ a.err
            THEN [@ EXCEPT !.op = op, !.pc = "done", !.ret = [err |-> TRUE],
                           !.n = sinceDrain, !.after = lastDrain]
            ELSE [@ EXCEPT !.op = op, !.pc = "lock",
                           !.loadAvg = IF kind = "cpu" THEN a ELSE @]]
       /\ samples' = IF kind = "cpu" /\ a.err THEN <<>> ELSE samples
  /\ UNCHANGED <<kind, interfaceTypes, mu, ctx, cancelled, loops, tick, now,
                 appended, evicted, handed, sinceDrain, lastDrain>>
  /\ UNCHANGED <<avars, dvars, rvars>>

\* a goroutine calls Collect (CollectPublic / CollectPrivate on the network
\* sampler).  CPU Collect queries the load averages first and returns the
\* error, if any, before touching the buffer.
Call(c) ==
  /\ callers[c].pc = "idle"
  /\ \E op \in Ops, a \in LoadAnswers :
       callers' = [callers EXCEPT ![c] =
         IF kind = "cpu" /\ a.err
         THEN [@ EXCEPT !.op = op, !.pc = "done", !.ret = [err |-> TRUE],
                        !.n = sinceDrain, !.after = lastDrain]
         ELSE [@ EXCEPT !.op = op, !.pc = "lock",
                        !.loadAvg = IF kind = "cpu" THEN a ELSE @]]
  /\ UNCHANGED <<kind, samples, interfaceTypes, mu, ctx, cancelled, loops, tick, now,
                 appended, evicted, handed, sinceDrain, lastDrain>>
  /\ UNCHANGED <<avars, dvars, rvars>>

\* c.mu.Lock(); copy(samples, c.samples), and the copy of n.interfaceTypes
CollectCopy(c) ==
  /\ callers[c].pc = "lock"
  /\ MutexFree(mu)
  /\ mu' = <<c>>
  /\ callers' = [callers EXCEPT ![c].pc = "copied", ![c].batch = samples,
                                ![c].types = IF kind = "network" THEN interfaceTypes ELSE @]
  /\ UNCHANGED <<kind, samples, interfaceTypes, ctx, cancelled, loops, tick, now,
                 appended, evicted, handed, sinceDrain, lastDrain>>
  /\ UNCHANGED <<avars, dvars, rvars>>

\* c.samples = c.samples[:0]; c.mu.Unlock(); and the reduction of the batch
CollectClear(c) ==
  /\ callers[c].pc = "copied"
  /\ samples' = Cleared(samples)
  /\ mu' = <<>>
  /\ handed' = [id \in DOMAIN handed |->
                  IF id \in Ids(callers[c].batch) THEN handed[id] + 1 ELSE handed[id]]
  /\ \E a \in MemAnswers :
       callers' = [callers EXCEPT ![c].pc = "done", ![c].n = sinceDrain,
                                  ![c].after = lastDrain, ![c].ret = Reduce(c, a),
                                  ![c].types = IdleCaller.types,
                                  ![c].loadAvg = IdleCaller.loadAvg]
  /\ sinceDrain' = 0
  /\ lastDrain' = callers[c].op
  /\ UNCHANGED <<kind, interfaceTypes, ctx, cancelled, loops, tick, now,
                 appended, evicted>>
  /\ UNCHANGED <<avars, dvars, rvars>>

\* the caller takes the result and may call again later
CollectReturn(c) ==
  /\ callers[c].pc = "done"
  /\ callers' = [callers EXCEPT ![c] = IdleCaller]
  /\ UNCHANGED <<kind, samples, interfaceTypes, mu, ctx, cancelled, loops, tick, now,
                 appended, evicted, handed, sinceDrain, lastDrain>>
  /\ UNCHANGED <<avars, dvars, rvars>>

Next ==
  \/ StartOnce
  \/ Stop
  \/ ClockTick
  \/ \E l \in LoopIds :
       \/ LoopDone(l)
       \/ LoopTick(l)
       \/ LoopClassify(l)
       \/ LoopAppend(l)
  \/ \E c \in Callers :
       \/ Call(c)
       \/ CollectCopy(c)
       \/ CollectClear(c)
       \/ CollectReturn(c)

\* the CPU sampler started once, its loop and the Collect callers
NextOnce ==
  \/ StartOnce
  \/ Stop
  \/ ClockTick
  \/ LoopDone(1)
  \/ LoopTick(1)
  \/ LoopAppend(1)
  \/ \E c \in Callers :
       \/ Call(c)
       \/ CollectCopy(c)
       \/ CollectClear(c)
       \/ CollectReturn(c)

\* the CPU sampler when Start may be called again: Start, Stop and the loops
\* (nobody calls Collect)
NextRestart ==
  \/ Start
  \/ Stop
  \/ ClockTick
  \/ \E l \in LoopIds :
       \/ LoopDone(l)
       \/ LoopTick(l)
       \/ LoopAppend(l)

----------------------------------------------------------------------------
(* The agent control loop: Agent.Start, collectAndSend, Stop.              *)

\* collectAndSend runs at most MaxCycles times
MaxCycles == 3
\* the agent's clock stops at MaxClock half hours
MaxClock == 4

\* staticRefreshInterval = 1 * time.Hour, in half hours
staticRefreshInterval == 2

\* what the server can answer: 0 stands for a request that failed
HTTPStatuses == {0, 200, 204, 400, 401, 403, 429, 500}
CommandLists == {<<>>, <<"uninstall">>, <<"restart">>}
Branches == {"CPU", "Memory", "Swap", "DiskSpace", "DiskIO", "NetworkPublic",
             "NetworkPrivate", "NetworkHealth", "System"}

\* the goroutines of DynamicCollector.Collect and the fields each one fills
Goroutines == {"CPU", "Memory", "Swap", "DiskSpace", "DiskIO", "Network", "System"}
Fields(g) == IF g = "Network" THEN <<"NetworkPublic", "NetworkPrivate", "NetworkHealth">>
             ELSE <<g>>

\* Fault: 403 is taken for an authentication failure too.
HTTPSendForbiddenIsAuth(status) ==
  IF status = 0 THEN "request failed"
  ELSE IF status >= 200 /\ status < 300 THEN "nil"
  ELSE IF status \in {401, 403} THEN "ErrUnauthorized"
  ELSE "unexpected status code"

\* HTTPSender.Send: the error it returns for a response status
HTTPSend(status) ==
  IF status = 0 THEN "request failed"
  ELSE IF status >= 200 /\ status < 300 THEN "nil"
  ELSE IF status = 401 THEN "ErrUnauthorized"
  ELSE IF status = 400 THEN "bad request"
  ELSE IF status = 429 THEN "rate limited"
  ELSE "unexpected status code"

\* Fault: a counter update that is lost.
NoIncrement(n) == n

\* Fault: the ticker case never sees the flag.
NeverAuthFailed == FALSE

\* Agent.incrementErrorCount
incrementErrorCount(n) == n + 1

\* a.metricsCount++ of collectAndSend
incrementMetricsCount(n) == n + 1

\* isAuthFailed := a.authFailed, read by the ticker case of Start
isAuthFailed == authFailed

\* StaticCollector.ShouldRefresh
ShouldRefresh == ~cache \/ clock - lastRefresh >= staticRefreshInterval

\* the five probes of StaticCollector.Collect
Probes == {"system", "hardware", "network", "cloud", "disks"}

\* the probes that can fail in one static collection: on a broken machine all
\* of them fail every time
StaticFailures == IF host = "broken" THEN {Probes} ELSE {{}, {"network"}, Probes}

\* the fields that can stay nil in one dynamic collection
DynamicFailures == IF host = "broken" THEN {Branches} ELSE {{}, {"CPU"}, Branches}

\* StaticCollector.Collect: the probes that failed leave their fields empty;
\* the error is always nil
StaticCollect(failed) == [err |-> "nil", result |-> [failed |-> failed]]

\* Fault: a result without a single field is not cached.
CachedIfSomeProbeWorked(failed) == failed # Probes

\* s.cache = result: the cache is not nil after Collect, whatever failed
StaticCached(failed) == TRUE

\* Fault: Collect reports an error as soon as one field is missing.
ReturnErrorIfAnyFailed(res) ==
  [err |-> IF \E b \in DOMAIN res : res[b] = "nil" THEN "collection failed" ELSE "nil",
   result |-> res]

\* return result, nil
DynamicReturn(res) == [err |-> "nil", result |-> res]

\* DynamicCollector.Collect as the agent sees it: a failed branch leaves its
\* field nil; the error is always nil
DynamicCollect(failed) ==
  DynamicReturn([b \in Branches |-> IF b \in failed THEN "nil" ELSE b])

\* Fault: the network goroutine asks for the private traffic first.
PrivateFirst == <<"private", "public", "health">>

\* the network goroutine calls CollectPublic, CollectPrivate, CollectHealth
NetworkCalls == <<"public", "private", "health">>

\* the network goroutine before its first call
NetIdle == [step |-> 0,
            ret |-> [o \in {"public", "private", "health"} |-> [pending |-> TRUE]],
            since |-> [o \in {"public", "private", "health"} |-> 0]]

\* before DynamicCollector.Collect is called
DynInit ==
  /\ net = NetIdle
  /\ dpc = "idle"
  /\ gor = [g \in Goroutines |-> [pc |-> "none", i |-> 0]]
  /\ outcome = [b \in Branches |-> ""]
  /\ result = [b \in Branches |-> "nil"]
  /\ dret = [err |-> "", result |-> [b \in Branches |-> "nil"]]

AgentInit ==
  /\ pc = "new"
  /\ running = FALSE
  /\ authFailed = FALSE
  /\ lastCollection = 0
  /\ lastSend = 0
  /\ metricsCount = 0
  /\ errorCount = 0
  /\ stopChan = "open"
  /\ senderClosed = FALSE
  /\ dyn = "new"
  /\ cache = FALSE
  /\ lastRefresh = 0
  /\ staticMetrics = FALSE
  /\ clock = 1
  /\ tickerC = FALSE
  /\ ctxDone = FALSE
  /\ sigChan = ""
  /\ mainSig = "waiting"
  /\ uninstall = "none"
  /\ exitCode = -1
  /\ startReturned = FALSE
  /\ cycles = 0
  /\ sent = <<>>
  /\ lastStatus = -1

\* no batch is being reduced outside of Collect
NoBatch == [batch |-> <<>>]
NoResult == [pending |-> TRUE]

ReduceInit == rin = NoBatch /\ rout = NoResult

Init == SamplerInit /\ AgentInit /\ DynInit /\ ReduceInit /\ host = "any"

\* what a.Stop() can do: return nil, return its error, or panic
StopResults == {"nil", "agent is not running", "panic"}

\* Fault: a Stop that leaves the sender's transport open.
StopKeepsSender(err) ==
  IF running
  THEN /\ err = "nil"
       /\ stopChan' = "closed"
       /\ running' = FALSE
       /\ dyn' = "stopped"
       /\ UNCHANGED senderClosed
  ELSE /\ err = "agent is not running"
       /\ UNCHANGED <<stopChan, running, dyn, senderClosed>>

\* Agent.Stop: what it changes, and the error it returns; close(a.stopChan)
\* on a channel that is closed already panics before anything is changed
StopAgent(err) ==
  IF ~running
  THEN /\ err = "agent is not running"
       /\ UNCHANGED <<stopChan, running, dyn, senderClosed>>
  ELSE IF stopChan = "closed"
  THEN /\ err = "panic"
       /\ UNCHANGED <<stopChan, running, dyn, senderClosed>>
  ELSE /\ err = "nil"
       /\ stopChan' = "closed"
       /\ running' = FALSE
       /\ dyn' = "stopped"
       /\ senderClosed' = TRUE

\* Start returns err to main, and runAgent exits with 1 on an error; a panic
\* in a.Stop() ends the process with 2 and Start does not return.  (The
\* deferred dynamicCollector.Stop is written where Start returns.)
ReturnFromStart(err) ==
  /\ pc' = "exited"
  /\ startReturned' = (err # "panic")
  /\ exitCode' = IF err = "nil" THEN 0 ELSE IF err = "panic" THEN 2 ELSE 1

\* Fault: Start goes on without starting the samplers.
SamplersNotStarted == dyn

\* a.dynamicCollector.Start(): the four samplers are started
StartSamplers == "started"

\* Agent.Start up to dynamicCollector.Start()
AgentStart ==
  /\ pc = "new"
  /\ IF running
     THEN ReturnFromStart("agent is already running") /\ UNCHANGED <<running, dyn>>
     ELSE /\ running' = TRUE
          /\ dyn' = StartSamplers
          /\ pc' = "static"
          /\ UNCHANGED <<startReturned, exitCode>>
  /\ UNCHANGED <<authFailed, lastCollection, lastSend, metricsCount, errorCount, stopChan,
                 senderClosed, cache, lastRefresh, staticMetrics, clock, tickerC, ctxDone,
                 sigChan, mainSig, uninstall, cycles, sent, lastStatus, host>>
  /\ UNCHANGED <<svars, dvars, rvars>>

\* the initial static collection (for the hostname), signal.Notify, the ticker
InitialStatic ==
  /\ pc = "static"
  /\ \E failed \in StaticFailures :
       LET r == StaticCollect(failed) IN
         /\ cache' = StaticCached(failed)
         /\ lastRefresh' = clock
  /\ sigChan' = ""
  /\ tickerC' = FALSE
  /\ pc' = "cycle"
  /\ UNCHANGED <<running, authFailed, lastCollection, lastSend, metricsCount, errorCount,
                 stopChan, senderClosed, dyn, staticMetrics, clock, ctxDone, mainSig,
                 uninstall, exitCode, startReturned, cycles, sent, lastStatus, host>>
  /\ UNCHANGED <<svars, dvars, rvars>>

\* collectAndSend: the static refresh, when ShouldRefresh says so
CycleStatic ==
  /\ pc = "cycle"
  /\ cycles' = cycles + 1
  /\ IF ShouldRefresh
     THEN \E failed \in StaticFailures :
            LET r == StaticCollect(failed) IN
              /\ cache' = StaticCached(failed)
              /\ lastRefresh' = clock
              /\ staticMetrics' = (r.err = "nil")
     ELSE /\ staticMetrics' = FALSE
          /\ UNCHANGED <<cache, lastRefresh>>
  /\ pc' = "dynamic"
  /\ UNCHANGED <<running, authFailed, lastCollection, lastSend, metricsCount, errorCount,
                 stopChan, senderClosed, dyn, clock, tickerC, ctxDone, sigChan, mainSig,
                 uninstall, exitCode, startReturned, sent, lastStatus, host>>
  /\ UNCHANGED <<svars, dvars, rvars>>

\* Fault: the loop runs the next cycle at once instead of waiting for a tick.
CycleAgain == "cycle"

\* collectAndSend returns: Start is back in its for/select
AfterCycle == "select"

\* collectAndSend: the dynamic collection; an error would end the cycle
CycleDynamic ==
  /\ pc = "dynamic"
  /\ \E failed \in DynamicFailures :
       LET r == DynamicCollect(failed) IN
         IF r.err # "nil"
         THEN /\ errorCount' = incrementErrorCount(errorCount)
              /\ pc' = AfterCycle
         ELSE /\ pc' = "send"
              /\ UNCHANGED errorCount
  /\ UNCHANGED <<running, authFailed, lastCollection, lastSend, metricsCount, stopChan,
                 senderClosed, dyn, cache, lastRefresh, staticMetrics, clock, tickerC,
                 ctxDone, sigChan, mainSig, uninstall, exitCode, startReturned, cycles,
                 sent, lastStatus, host>>
  /\ UNCHANGED <<svars, dvars, rvars>>

\* Fault: every command of the server is taken for "uninstall".
AnyCommandUninstalls(commands) ==
  IF Len(commands) > 0
  THEN IF uninstall = "run" THEN "run" ELSE "sleeping"
  ELSE uninstall

\* processServerCommands: "uninstall" spawns a goroutine that sleeps 2 s and
\* runs the uninstall script; any other command is ignored
ProcessServerCommands(commands) ==
  IF \E i \in 1..Len(commands) : commands[i] = "uninstall"
  THEN IF uninstall = "run" THEN "run" ELSE "sleeping"
  ELSE uninstall

\* collectAndSend: sender.Send and what follows it
CycleSend ==
  /\ pc = "send"
  /\ sent' = Append(sent, [static |-> staticMetrics])
  /\ \E status \in (IF ctxDone THEN {0} ELSE HTTPStatuses), commands \in CommandLists :
       LET err == HTTPSend(status) IN
         /\ lastStatus' = status
         /\ IF err = "ErrUnauthorized"
            THEN /\ authFailed' = TRUE
                 /\ UNCHANGED <<errorCount, lastCollection, lastSend, metricsCount,
                                uninstall>>
            ELSE IF err # "nil"
            THEN /\ errorCount' = incrementErrorCount(errorCount)
                 /\ UNCHANGED <<authFailed, lastCollection, lastSend, metricsCount,
                                uninstall>>
            ELSE /\ lastCollection' = clock
                 /\ lastSend' = clock
                 /\ metricsCount' = incrementMetricsCount(metricsCount)
                 /\ uninstall' = ProcessServerCommands(commands)
                 /\ UNCHANGED <<authFailed, errorCount>>
  /\ pc' = AfterCycle
  /\ UNCHANGED <<running, stopChan, senderClosed, dyn, cache, lastRefresh, staticMetrics,
                 clock, tickerC, ctxDone, sigChan, mainSig, exitCode, startReturned,
                 cycles, host>>
  /\ UNCHANGED <<svars, dvars, rvars>>

\* case <-ctx.Done(): return a.Stop()
SelectCtxDone ==
  /\ pc = "select"
  /\ ctxDone
  /\ \E err \in StopResults :
       /\ StopAgent(err)
       /\ ReturnFromStart(err)
  /\ UNCHANGED <<authFailed, lastCollection, lastSend, metricsCount, errorCount, cache,
                 lastRefresh, staticMetrics, clock, tickerC, ctxDone, sigChan, mainSig,
                 uninstall, cycles, sent, lastStatus, host>>
  /\ UNCHANGED <<svars, dvars, rvars>>

\* Fault: a select without the stopChan case.
StopChanIgnored == FALSE /\ UNCHANGED vars

\* case <-a.stopChan: return nil (the deferred dynamicCollector.Stop runs)
SelectStopChan ==
  /\ pc = "select"
  /\ stopChan = "closed"
  /\ ReturnFromStart("nil")
  /\ dyn' = "stopped"
  /\ UNCHANGED <<running, authFailed, lastCollection, lastSend, metricsCount, errorCount,
                 stopChan, senderClosed, cache, lastRefresh, staticMetrics, clock, tickerC,
                 ctxDone, sigChan, mainSig, uninstall, cycles, sent, lastStatus, host>>
  /\ UNCHANGED <<svars, dvars, rvars>>

\* case sig := <-sigChan: SIGHUP is logged, SIGINT and SIGTERM return a.Stop()
SelectSignal ==
  /\ pc = "select"
  /\ sigChan # ""
  /\ sigChan' = ""
  /\ IF sigChan = "SIGHUP"
     THEN UNCHANGED <<pc, running, stopChan, senderClosed, dyn, exitCode, startReturned>>
     ELSE \E err \in StopResults :
            /\ StopAgent(err)
            /\ ReturnFromStart(err)
  /\ UNCHANGED <<authFailed, lastCollection, lastSend, metricsCount, errorCount, cache,
                 lastRefresh, staticMetrics, clock, tickerC, ctxDone, mainSig, uninstall,
                 cycles, sent, lastStatus, host>>
  /\ UNCHANGED <<svars, dvars, rvars>>

\* case <-ticker.C: with authFailed set, a.Stop() and os.Exit(3); else a cycle
SelectTick ==
  /\ pc = "select"
  /\ tickerC
  /\ tickerC' = FALSE
  /\ IF isAuthFailed
     THEN /\ \E err \in StopResults :
               /\ StopAgent(err)
               /\ exitCode' = IF err = "panic" THEN 2 ELSE 3
          /\ pc' = "exited"
     ELSE /\ cycles < MaxCycles
          /\ pc' = "cycle"
          /\ UNCHANGED <<running, stopChan, senderClosed, dyn, exitCode>>
  /\ UNCHANGED <<authFailed, lastCollection, lastSend, metricsCount, errorCount, cache,
                 lastRefresh, staticMetrics, clock, ctxDone, sigChan, mainSig, uninstall,
                 startReturned, cycles, sent, lastStatus, host>>
  /\ UNCHANGED <<svars, dvars, rvars>>

Alive == exitCode = -1

\* 15 s pass: the ticker, once created by Start, offers a tick
TickerFire ==
  /\ Alive
  /\ pc \in {"cycle", "dynamic", "send", "select"}
  /\ ~tickerC
  /\ tickerC' = TRUE
  /\ UNCHANGED <<pc, running, authFailed, lastCollection, lastSend, metricsCount,
                 errorCount, stopChan, senderClosed, dyn, cache, lastRefresh,
                 staticMetrics, clock, ctxDone, sigChan, mainSig, uninstall, exitCode,
                 startReturned, cycles, sent, lastStatus, host>>
  /\ UNCHANGED <<svars, dvars, rvars>>

\* half an hour passes
ClockAdvance ==
  /\ Alive
  /\ clock < MaxClock
  /\ clock' = clock + 1
  /\ UNCHANGED <<pc, running, authFailed, lastCollection, lastSend, metricsCount,
                 errorCount, stopChan, senderClosed, dyn, cache, lastRefresh,
                 staticMetrics, tickerC, ctxDone, sigChan, mainSig, uninstall, exitCode,
                 startReturned, cycles, sent, lastStatus, host>>
  /\ UNCHANGED <<svars, dvars, rvars>>

\* the OS delivers a signal: to the agent's channel once Start has called
\* signal.Notify, and, for SIGINT and SIGTERM, to the channel of runAgent
Signal ==
  /\ Alive
  /\ pc \in {"cycle", "dynamic", "send", "select"}
  /\ \E sig \in {"SIGHUP", "SIGINT", "SIGTERM"} :
       /\ sigChan' = IF sigChan = "" THEN sig ELSE sigChan
       /\ mainSig' = IF sig # "SIGHUP" /\ mainSig = "waiting" THEN "got" ELSE mainSig
  /\ UNCHANGED <<pc, running, authFailed, lastCollection, lastSend, metricsCount,
                 errorCount, stopChan, senderClosed, dyn, cache, lastRefresh,
                 staticMetrics, clock, tickerC, ctxDone, uninstall, exitCode,
                 startReturned, cycles, sent, lastStatus, host>>
  /\ UNCHANGED <<svars, dvars, rvars>>

\* the goroutine of runAgent: <-sigChan; cancel()
MainCancel ==
  /\ Alive
  /\ mainSig = "got"
  /\ mainSig' = "done"
  /\ ctxDone' = TRUE
  /\ UNCHANGED <<pc, running, authFailed, lastCollection, lastSend, metricsCount,
                 errorCount, stopChan, senderClosed, dyn, cache, lastRefresh,
                 staticMetrics, clock, tickerC, sigChan, uninstall, exitCode,
                 startReturned, cycles, sent, lastStatus, host>>
  /\ UNCHANGED <<svars, dvars, rvars>>

\* another goroutine calls Agent.Stop
StopRequest ==
  /\ Alive
  /\ \E err \in StopResults :
       /\ StopAgent(err)
       /\ IF err = "panic"
          THEN pc' = "exited" /\ exitCode' = 2
          ELSE UNCHANGED <<pc, exitCode>>
  /\ UNCHANGED <<authFailed, lastCollection, lastSend, metricsCount, errorCount,
                 cache, lastRefresh, staticMetrics, clock, tickerC, ctxDone, sigChan,
                 mainSig, uninstall, startReturned, cycles, sent, lastStatus, host>>
  /\ UNCHANGED <<svars, dvars, rvars>>

\* the uninstall goroutine wakes up after its 2 s and runs the script
RunUninstall ==
  /\ Alive
  /\ uninstall = "sleeping"
  /\ uninstall' = "run"
  /\ UNCHANGED <<pc, running, authFailed, lastCollection, lastSend, metricsCount,
                 errorCount, stopChan, senderClosed, dyn, cache, lastRefresh,
                 staticMetrics, clock, tickerC, ctxDone, sigChan, mainSig, exitCode,
                 startReturned, cycles, sent, lastStatus, host>>
  /\ UNCHANGED <<svars, dvars, rvars>>

\* Start has returned and its caller, instead of exiting, calls Start again on
\* the same agent with the same context
StartAgain ==
  /\ pc = "exited"
  /\ startReturned
  /\ cycles < MaxCycles
  /\ pc' = "new"
  /\ startReturned' = FALSE
  /\ exitCode' = -1
  /\ UNCHANGED <<running, authFailed, lastCollection, lastSend, metricsCount, errorCount,
                 stopChan, senderClosed, dyn, cache, lastRefresh, staticMetrics, clock,
                 tickerC, ctxDone, sigChan, mainSig, uninstall, cycles, sent, lastStatus,
                 host>>
  /\ UNCHANGED <<svars, dvars, rvars>>

NextAgent ==
  \/ AgentStart
  \/ InitialStatic
  \/ CycleStatic
  \/ CycleDynamic
  \/ CycleSend
  \/ SelectCtxDone
  \/ SelectStopChan
  \/ SelectSignal
  \/ SelectTick
  \/ TickerFire
  \/ ClockAdvance
  \/ Signal
  \/ MainCancel
  \/ StopRequest
  \/ RunUninstall

----------------------------------------------------------------------------
(* Collect on a given drained batch: the reducers applied to batches of up *)
(* to MaxBatch samples, with clock anomalies, devices that come and go and *)
(* counters that go down.                                                  *)

\* drained batches hold at most MaxBatch samples
MaxBatch == 3

\* the instants, in seconds, at which a sample can be stamped
Stamps == {0, 2, 4}

Batches(S) == UNION {[1..n -> S] : n \in 0..MaxBatch}

CpuSamples == {[id |-> 0, ts |-> 0, v |-> p] : p \in {0, 50, 75}}
MemSamples == {[id |-> 0, ts |-> 0, v |-> VMem(u)] : u \in {2, 5, 6}}

\* the counters of one block device
DiskStat(c) == [readBytes |-> c, writeBytes |-> (2 * c) % Uint64,
                readCount |-> (3 * c) % Uint64, writeCount |-> (c + 1) % Uint64]

\* disk.IOCounters: sda is always listed, sdb comes and goes
DiskSnapshots ==
  {[d \in {"sda"} |-> DiskStat(a)] : a \in {1, 5}}
    \cup {[d \in {"sda", "sdb"} |-> DiskStat(IF d = "sda" THEN a ELSE b)] :
            a \in {1, 5}, b \in {2, 9}}

DiskSamples == {[id |-> 0, ts |-> t, v |-> d] : t \in Stamps, d \in DiskSnapshots}

\* the counters of one network interface
NetStat(c) == [bytesSent |-> c, bytesRecv |-> (2 * c) % Uint64,
               errorsIn |-> 0, errorsOut |-> 0, dropsIn |-> 0, dropsOut |-> 0]

\* net.IOCounters(true): eth0 is always listed, eth1 comes and goes
NetSnapshots ==
  {[i \in {"eth0"} |-> NetStat(a)] : a \in {1, 5}}
    \cup {[i \in {"eth0", "eth1"} |-> NetStat(IF i = "eth0" THEN a ELSE b)] :
            a \in {1, 5}, b \in {2, 9}}

NetSamples == {[id |-> 0, ts |-> t, v |-> d] : t \in Stamps, d \in NetSnapshots}

\* the copy of n.interfaceTypes and the type asked for; sample() has
\* classified every interface of a sample before appending it
TypeQueries ==
  {[types |-> [i \in Ifaces |-> IF i = "eth0" THEN "public" ELSE "private"],
    ifaceType |-> "public"],
   [types |-> [i \in Ifaces |-> IF i = "eth0" THEN "public" ELSE "private"],
    ifaceType |-> "private"],
   [types |-> [i \in Ifaces |-> "public"], ifaceType |-> "public"]}

ReduceInputs ==
  CASE kind = "cpu" ->
         {[batch |-> b, loadAvg |-> a] : b \in Batches(CpuSamples), a \in LoadAnswers}
    [] kind = "memory" ->
         {[batch |-> b, answer |-> a] : b \in Batches(MemSamples), a \in MemAnswers}
    [] kind = "diskio" -> {[batch |-> b] : b \in Batches(DiskSamples)}
    [] kind = "network" ->
         {[batch |-> b, types |-> q.types, ifaceType |-> q.ifaceType] :
            b \in Batches(NetSamples), q \in TypeQueries}

InitReduce ==
  /\ SamplerInit /\ AgentInit /\ DynInit
  /\ host = "any"
  /\ rin \in ReduceInputs
  /\ rout = NoResult

\* Collect has returned
Reduced == "pending" \notin DOMAIN rout

\* Fault: Collect reports the newest sample instead of the mean.
CPULatest(batch, loadAvg) ==
  IF loadAvg.err THEN [err |-> TRUE]
  ELSE [CPUReduce(batch, loadAvg) EXCEPT
          !.UsagePercent = IF Len(batch) > 0 THEN Rat(batch[Len(batch)].v, 1) ELSE RatZero]

\* CPUCollector.Collect: a failed load-average query ends the call
CPUCollect(batch, loadAvg) ==
  IF loadAvg.err THEN [err |-> TRUE] ELSE CPUReduce(batch, loadAvg)

ApplyCPU ==
  /\ kind = "cpu" /\ ~Reduced
  /\ rout' = CPUCollect(rin.batch, rin.loadAvg)
  /\ UNCHANGED <<rin, svars, avars, dvars>>

ApplyMemory ==
  /\ kind = "memory" /\ ~Reduced
  /\ rout' = MemoryReduce(rin.batch, rin.answer)
  /\ UNCHANGED <<rin, svars, avars, dvars>>

ApplyDiskIO ==
  /\ kind = "diskio" /\ ~Reduced
  /\ rout' = DiskIOReduce(rin.batch)
  /\ UNCHANGED <<rin, svars, avars, dvars>>

ApplyNetwork ==
  /\ kind = "network" /\ ~Reduced
  /\ rout' = NetworkReduce(rin.batch, rin.types, rin.ifaceType)
  /\ UNCHANGED <<rin, svars, avars, dvars>>

NextReduce ==
  \/ ApplyCPU
  \/ ApplyMemory
  \/ ApplyDiskIO
  \/ ApplyNetwork

----------------------------------------------------------------------------
(* DynamicCollector.Collect: the fan-out over the branches.                *)

\* Collect is called: result is allocated and the goroutines are spawned
DynCall ==
  /\ dpc = "idle"
  /\ dpc' = "wait"
  /\ gor' = [g \in Goroutines |-> [pc |-> "call", i |-> 1]]
  /\ outcome' = [b \in Branches |-> ""]
  /\ result' = [b \in Branches |-> "nil"]
  /\ UNCHANGED <<dret, net, svars, avars, rvars>>

\* a goroutine after it is through with its field number i: the next field,
\* or wg.Done
Advance(g) ==
  IF gor[g].i < Len(Fields(g)) THEN [pc |-> "call", i |-> gor[g].i + 1]
  ELSE [pc |-> "done", i |-> 0]

\* if x, err := collector.Collect(ctx); err == nil { ... }: the call returns
BranchCall(g) ==
  /\ gor[g].pc = "call"
  /\ \E ok \in BOOLEAN :
       /\ outcome' = [outcome EXCEPT ![Fields(g)[gor[g].i]] = IF ok THEN "ok" ELSE "err"]
       /\ gor' = [gor EXCEPT ![g] = IF ok THEN [@ EXCEPT !.pc = "write"] ELSE Advance(g)]
  /\ UNCHANGED <<dpc, result, dret, net, svars, avars, rvars>>

\* mu.Lock(); result.X = x; mu.Unlock()
BranchWrite(g) ==
  /\ gor[g].pc = "write"
  /\ result' = [result EXCEPT ![Fields(g)[gor[g].i]] = Fields(g)[gor[g].i]]
  /\ gor' = [gor EXCEPT ![g] = Advance(g)]
  /\ UNCHANGED <<dpc, outcome, dret, net, svars, avars, rvars>>

\* wg.Wait(); return result, nil
DynReturn ==
  /\ dpc = "wait"
  /\ \A g \in Goroutines : gor[g].pc = "done"
  /\ dret' = DynamicReturn(result)
  /\ dpc' = "returned"
  /\ UNCHANGED <<gor, outcome, result, net, svars, avars, rvars>>

NextDyn ==
  \/ DynCall
  \/ \E g \in Goroutines : BranchCall(g) \/ BranchWrite(g)
  \/ DynReturn

----------------------------------------------------------------------------
(* The network goroutine of DynamicCollector.Collect on the running        *)
(* network sampler: CollectPublic, CollectPrivate, CollectHealth, cycle    *)
(* after cycle, while the sampler's loop goes on appending.                *)

\* the goroutine calls CollectPublic or CollectPrivate
NetCall ==
  /\ net.step < 3
  /\ NetworkCalls[net.step + 1] # "health"
  /\ callers["c1"].pc = "idle"
  /\ callers' = [callers EXCEPT !["c1"] =
       [@ EXCEPT !.op = NetworkCalls[net.step + 1], !.pc = "lock"]]
  /\ UNCHANGED <<kind, samples, interfaceTypes, mu, ctx, cancelled, loops, tick, now,
                 appended, evicted, handed, sinceDrain, lastDrain>>
  /\ UNCHANGED <<dpc, gor, outcome, result, dret, net, avars, rvars>>

\* the call returns and the goroutine keeps what it returned
NetTake ==
  /\ callers["c1"].pc = "done"
  /\ net' = [net EXCEPT !.step = @ + 1,
                        !.ret[callers["c1"].op] = callers["c1"].ret,
                        !.since[callers["c1"].op] = callers["c1"].n]
  /\ callers' = [callers EXCEPT !["c1"] = IdleCaller]
  /\ UNCHANGED <<kind, samples, interfaceTypes, mu, ctx, cancelled, loops, tick, now,
                 appended, evicted, handed, sinceDrain, lastDrain>>
  /\ UNCHANGED <<dpc, gor, outcome, result, dret, avars, rvars>>

\* Fault: CollectHealth drains the buffer as the other two calls do.
NetHealthDrains ==
  /\ net.step < 3
  /\ NetworkCalls[net.step + 1] = "health"
  /\ callers["c1"].pc = "idle"
  /\ MutexFree(mu)
  /\ net' = [net EXCEPT !.step = @ + 1,
                        !.ret["health"] = CollectHealth(samples),
                        !.since["health"] = sinceDrain]
  /\ samples' = <<>>
  /\ UNCHANGED <<kind, interfaceTypes, mu, ctx, cancelled, loops, tick, now, callers,
                 appended, evicted, handed, sinceDrain, lastDrain>>
  /\ UNCHANGED <<dpc, gor, outcome, result, dret, avars, rvars>>

\* the goroutine calls CollectHealth: lock, read the newest sample, unlock
NetHealth ==
  /\ net.step < 3
  /\ NetworkCalls[net.step + 1] = "health"
  /\ callers["c1"].pc = "idle"
  /\ MutexFree(mu)
  /\ net' = [net EXCEPT !.step = @ + 1,
                        !.ret["health"] = CollectHealth(samples),
                        !.since["health"] = sinceDrain]
  /\ UNCHANGED <<kind, samples, interfaceTypes, mu, ctx, cancelled, loops, tick, now,
                 callers, appended, evicted, handed, sinceDrain, lastDrain>>
  /\ UNCHANGED <<dpc, gor, outcome, result, dret, avars, rvars>>

\* wg.Done: the goroutine ends; the next cycle spawns it again
NetDone ==
  /\ net.step = 3
  /\ net' = NetIdle
  /\ UNCHANGED <<dpc, gor, outcome, result, dret, svars, avars, rvars>>

NextNet ==
  \/ StartOnce
  \/ ClockTick
  \/ LoopTick(1)
  \/ LoopClassify(1)
  \/ LoopAppend(1)
  \/ NetCall
  \/ CollectCopy("c1")
  \/ CollectClear("c1")
  \/ NetTake
  \/ NetHealth
  \/ NetDone

----------------------------------------------------------------------------
Spec == Init /\ [][Next]_vars

InitNet == Init /\ kind = "network"

SpecNet == InitNet /\ [][NextNet]_vars

InitAgent == Init /\ kind = "cpu"

\* the agent on a machine where every static probe and every dynamic
\* sub-collection fails
InitBrokenHost ==
  /\ SamplerInit /\ AgentInit /\ DynInit /\ ReduceInit
  /\ kind = "cpu"
  /\ host = "broken"

SpecAgent == InitAgent /\ [][NextAgent]_vars

SpecBrokenHost == InitBrokenHost /\ [][NextAgent]_vars

SpecStartStop == InitAgent /\ [][NextAgent \/ StartAgain]_vars

SpecDyn == InitAgent /\ [][NextDyn]_vars

SpecRestart == InitAgent /\ [][NextRestart]_vars

SpecReduce == InitReduce /\ [][NextReduce]_vars

\* The select of the loop picks among its ready cases at random, so the
\* cancellation case, ready at every entry once the context is cancelled, is
\* taken eventually; a critical section of Collect ends; and sync.Mutex
\* hands the lock to a waiting sample() eventually.
SpecLive ==
  /\ InitAgent
  /\ [][NextOnce]_vars
  /\ SF_vars(LoopDone(1))
  /\ SF_vars(LoopAppend(1))
  /\ \A c \in Callers : WF_vars(CollectClear(c))

\* The goroutine running Start is not held up for ever: the collections and
\* the transmission run under a 10 s deadline.  Its select picks among the
\* ready cases at random, so a case that is ready every time the select is
\* entered is taken eventually.  The goroutine of runAgent calls cancel once
\* it has its signal.  Ticks, signals, Stop calls and the clock are the
\* environment's and are under no obligation.
SpecAgentLive ==
  /\ InitAgent
  /\ [][NextAgent]_vars
  /\ WF_vars(AgentStart \/ InitialStatic \/ CycleStatic \/ CycleDynamic \/ CycleSend)
  /\ SF_vars(SelectCtxDone)
  /\ SF_vars(SelectStopChan)
  /\ SF_vars(SelectSignal)
  /\ WF_vars(MainCancel)

----------------------------------------------------------------------------
(* Properties of the samplers (specification Spec).                        *)

\* C1: for each of the four samplers, in every reachable state the history
\* buffer holds at most maxSamples samples.
C1_BufferBounded == Len(samples) <= maxSamples

\* the buffer is full and the cap has already evicted a sample
C1_Witness == Len(samples) = maxSamples /\ evicted # {}

\* C2: Collect is atomic with respect to the loop and to other Collect calls:
\* every appended sample is handed to at most one Collect, and a sample the
\* cap did not evict is either still buffered (and handed to nobody) or out
\* of the buffer and handed to exactly one Collect.
C2_NoneLostNoneDuplicated ==
  \A id \in 1..appended :
    /\ handed[id] <= 1
    /\ id \notin evicted =>
         \/ id \in Ids(samples) /\ handed[id] = 0
         \/ id \notin Ids(samples) /\ handed[id] = 1

\* one Collect sits between its copy and its reset while the loop and another
\* Collect wait for the lock, and an earlier Collect has handed out a sample
C2_Witness ==
  \E c, d \in Callers :
    /\ c # d
    /\ callers[c].pc = "copied"
    /\ Len(callers[c].batch) >= 1
    /\ callers[d].pc = "lock"
    /\ \E l \in LoopIds : loops[l].pc = "lock"
    /\ \E id \in DOMAIN handed : handed[id] = 1

\* C3: a Collect that gets as far as its drain, after N appends since the
\* previous drain, takes exactly min(N, maxSamples) samples and leaves the
\* buffer empty; and a Collect returns a result only through that drain.
C3_DrainsMinAndEmpties ==
  [][\A c \in Callers :
       /\ (callers[c].pc = "copied" /\ callers'[c].pc = "done") =>
            /\ Len(callers[c].batch) = Min(sinceDrain, maxSamples)
            /\ samples' = <<>>
       /\ (callers[c].pc # "done" /\ callers'[c].pc = "done" /\ ~callers'[c].ret.err) =>
            callers[c].pc = "copied"]_vars

\* a Collect has drained a full buffer after more appends than the capacity
C3_Witness ==
  \E c \in Callers :
    /\ callers[c].pc = "done"
    /\ ~callers[c].ret.err
    /\ callers[c].n > maxSamples
    /\ Len(callers[c].batch) = maxSamples
    /\ samples = <<>>

\* the result with every value zero and no error, per sampler
ZeroResult ==
  CASE kind = "cpu" -> CPUZero
    [] kind = "memory" -> MemoryZero
    [] kind = "diskio" -> DiskIOZero
    [] kind = "network" -> NetworkZero

\* a Collect that returned, called after an earlier drain with no append since
AfterDrainNoAppend(c) ==
  callers[c].pc = "done" /\ callers[c].n = 0 /\ callers[c].after # ""

\* C4 as stated: for every sampler a Collect after a previous Collect, with no
\* sample in between, returns all values zero and no error.
C4_AllZeroNoError ==
  \A c \in Callers : AfterDrainNoAppend(c) => callers[c].ret = ZeroResult

\* C4, amended: such a Collect returns all zeros and no error on the disk-I/O
\* and network samplers; on the CPU sampler it returns the load-average error
\* or usage 0 with the load averages just queried; on the memory sampler it
\* returns the error or the figures of one instantaneous query.
C4_EmptyBatchResult ==
  \A c \in Callers : AfterDrainNoAppend(c) =>
    LET ret == callers[c].ret IN
      CASE kind = "diskio" -> ret = DiskIOZero
        [] kind = "network" -> ret = NetworkZero
        [] kind = "cpu" ->
             \/ ret.err
             \/ \E a \in LoadAnswers :
                  /\ ~a.err
                  /\ ret = [err |-> FALSE, UsagePercent |-> RatZero,
                            LoadAvg1m |-> <<a.Load1, 1>>, LoadAvg5m |-> <<a.Load5, 1>>,
                            LoadAvg15m |-> <<a.Load15, 1>>]
        [] kind = "memory" ->
             \/ ret.err
             \/ \E a \in MemAnswers :
                  /\ ~a.err
                  /\ ret = [err |-> FALSE, Total |-> a.vmem.total, Used |-> a.vmem.used,
                            Free |-> a.vmem.free, Available |-> a.vmem.available,
                            UsedPercent |-> <<a.vmem.usedPercent, 1>>,
                            Cached |-> a.vmem.cached, Buffers |-> a.vmem.buffers]

\* a memory Collect right after a drain that took samples returns the figures
\* of the fresh query
C4_Witness ==
  \E c \in Callers :
    /\ kind = "memory"
    /\ AfterDrainNoAppend(c)
    /\ appended >= 1
    /\ samples = <<>>
    /\ ~callers[c].ret.err
    /\ callers[c].ret.Used > 0

\* C10: on the network sampler, CollectByType(private) after
\* CollectByType(public) with no sample appended between the two drains
\* returns all-zero rates and totals.
C10_PrivateAfterPublicIsZero ==
  \A c \in Callers :
    (kind = "network" /\ AfterDrainNoAppend(c) /\ callers[c].op = "private"
       /\ callers[c].after = "public")
      => callers[c].ret = NetworkZero

\* CollectPublic has returned non-zero rates and totals from a buffer of real
\* traffic, and the CollectPrivate that followed it has returned
C10_Witness ==
  \E c, d \in Callers :
    /\ kind = "network"
    /\ callers[c].pc = "done" /\ callers[c].op = "public"
    /\ callers[c].ret.SendMbps # RatZero
    /\ callers[c].ret.TotalSentGB # RatZero
    /\ \E i \in Ifaces : interfaceTypes[i] = "private"
    /\ AfterDrainNoAppend(d) /\ callers[d].op = "private" /\ callers[d].after = "public"

\* the loop takes a tick and is back in its select at once: the OS query of
\* sample() failed
FailedTick(l) ==
  loops[l].pc = "select" /\ loops'[l].pc = "select" /\ tick[l] /\ ~tick'[l]

\* C15: a tick whose OS query fails leaves the buffer as it was: nothing is
\* appended or evicted, the classification cache is untouched and no caller
\* of Collect sees anything of it.
C15_FailedTickLeavesBuffer ==
  [][\A l \in LoopIds :
       FailedTick(l) =>
         /\ samples' = samples
         /\ appended' = appended
         /\ evicted' = evicted
         /\ handed' = handed
         /\ interfaceTypes' = interfaceTypes
         /\ callers' = callers]_vars

\* the tick of second 2 has been taken and the buffer still holds only the
\* sample of second 1
C15_Witness ==
  /\ now = 2 /\ ~tick[1]
  /\ loops[1].pc = "select"
  /\ appended = 1
  /\ Len(samples) = 1 /\ samples[1].ts = 1

\* C16: the classification is sticky: a label in the cache is never changed
\* or removed, whatever a later lookup of the same interface would yield.
C16_ClassificationSticky ==
  [][\A i \in Ifaces :
       interfaceTypes[i] # "" => interfaceTypes'[i] = interfaceTypes[i]]_vars

\* eth0 is labelled private, and the loop is classifying it again for its
\* third sample
C16_Witness ==
  /\ kind = "network"
  /\ interfaceTypes["eth0"] = "private"
  /\ appended = 2
  /\ \E l \in LoopIds : loops[l].pc = "classify" /\ IfaceOrder[loops[l].i] = "eth0"

\* C26: at all times the buffer holds the most recent, at most maxSamples,
\* samples taken since the last drain, in the order they were taken; an
\* append to a full buffer evicts exactly the oldest sample, and an append
\* to a buffer that is not full evicts nothing.
C26_MostRecentInOrder ==
  /\ [](/\ Len(samples) = Min(sinceDrain, maxSamples)
        /\ \A i \in 1..Len(samples) : samples[i].id = appended - Len(samples) + i
        /\ \A i \in 1..Len(samples), j \in 1..Len(samples) :
             i < j => samples[i].ts <= samples[j].ts)
  /\ [][appended' = appended + 1 =>
          LET new == samples'[Len(samples')] IN
            /\ new.id = appended'
            /\ IF Len(samples) = maxSamples
               THEN /\ samples' = Append(Tail(samples), new)
                    /\ evicted' = evicted \cup {samples[1].id}
               ELSE /\ samples' = Append(samples, new)
                    /\ evicted' = evicted]_vars

\* three samples were appended to the buffer of two: the first one is gone
\* and the other two are held in order
C26_Witness ==
  /\ appended = 3
  /\ evicted = {1}
  /\ Len(samples) = 2
  /\ samples[1].id = 2 /\ samples[2].id = 3
  /\ sinceDrain = 3

\* C36: a Collect returns without going through the drain only on the CPU
\* sampler, with the error of the load-average query and nothing else, and
\* that step leaves the buffer, the count of appends since the last drain and
\* the lock as they were; the next Collect that drains copies the whole
\* buffer, so it returns min(N, maxSamples) samples for the N appends since
\* the last drain, those made before the failed call included.
C36_FailedCollectKeepsBuffer ==
  /\ [][\A c \in Callers :
          /\ (callers[c].pc = "idle" /\ callers'[c].pc = "done") =>
               /\ kind = "cpu"
               /\ callers'[c].ret = [err |-> TRUE]
               /\ samples' = samples
               /\ handed' = handed
               /\ sinceDrain' = sinceDrain
               /\ mu' = mu
          /\ (callers[c].pc = "lock" /\ callers'[c].pc = "copied") =>
               callers'[c].batch = samples]_vars
  /\ [](\A c \in Callers :
          (callers[c].pc = "done" /\ ~callers[c].ret.err) =>
             Len(callers[c].batch) = Min(callers[c].n, maxSamples))

\* a Collect failed when one sample was buffered and nothing had been drained;
\* the first drain, made after a second sample, returned both
C36_Witness ==
  /\ kind = "cpu"
  /\ callers["c1"].pc = "done"
  /\ callers["c1"].ret.err
  /\ callers["c1"].n = 1
  /\ callers["c1"].after = ""
  /\ callers["c2"].pc = "done"
  /\ ~callers["c2"].ret.err
  /\ callers["c2"].after = ""
  /\ Ids(callers["c2"].batch) = {1, 2}

Labels == {"public", "private"}

\* C38: on the network sampler every interface of every buffered sample has
\* a label in the classification cache, public or private, and so has every
\* interface of every sample of a drained batch in the copy of the cache that
\* collectByType took with the batch: each of them is counted for exactly one
\* of the two types.
C38_BufferedInterfacesLabelled ==
  kind = "network" =>
    /\ \A i \in 1..Len(samples) : \A n \in DOMAIN samples[i].v :
         interfaceTypes[n] \in Labels
    /\ \A c \in Callers :
         callers[c].pc = "copied" =>
           \A i \in 1..Len(callers[c].batch) : \A n \in DOMAIN callers[c].batch[i].v :
             /\ n \in DOMAIN callers[c].types
             /\ callers[c].types[n] \in Labels

\* a batch of two samples has been copied together with a cache that labels
\* one interface public and the other private
C38_Witness ==
  /\ kind = "network"
  /\ \E c \in Callers :
       /\ callers[c].pc = "copied"
       /\ Len(callers[c].batch) = 2
       /\ DOMAIN callers[c].batch[2].v = Ifaces
       /\ callers[c].types["eth0"] = "public"
       /\ callers[c].types["eth1"] = "private"

\* the rates of a disk-I/O or network result
ZeroRates(r) ==
  IF kind = "diskio"
  THEN r.ReadMBps = RatZero /\ r.WriteMBps = RatZero /\ r.ReadIOPS = RatZero
       /\ r.WriteIOPS = RatZero
  ELSE r.SendMbps = RatZero /\ r.RecvMbps = RatZero

\* C39: on the disk-I/O and network samplers a drain hands over only samples
\* that no earlier Collect was given and keeps none of them in the buffer, so
\* no pair of consecutive samples is ever made of the last sample of one
\* Collect and the first of the next; a drain of at most one sample reports
\* zero rates, however much the counters moved since the sample drained
\* before it, and a disk-I/O drain of two samples taken at different seconds
\* reports the rate of that pair alone.
C39_NoPairAcrossCollects ==
  [][\A c \in Callers :
       (kind \in {"diskio", "network"} /\ callers[c].pc = "copied"
          /\ callers'[c].pc = "done") =>
         LET batch == callers[c].batch IN
           /\ samples' = <<>>
           /\ \A i \in 1..Len(batch) :
                handed[batch[i].id] = 0 /\ handed'[batch[i].id] = 1
           /\ Len(batch) <= 1 => ZeroRates(callers'[c].ret)
           /\ (kind = "diskio" /\ Len(batch) = 2 /\ batch[2].ts > batch[1].ts) =>
                callers'[c].ret.ReadIOPS =
                  Rat(batch[2].v["sda"].readCount - batch[1].v["sda"].readCount,
                      batch[2].ts - batch[1].ts)]_vars

\* the disk-I/O sampler was drained when it held its first sample and again
\* when it held its second, taken later with higher counters: the second
\* Collect reports zero rates
C39_Witness ==
  /\ kind = "diskio"
  /\ \E c \in Callers :
       /\ callers[c].pc = "done"
       /\ callers[c].after = "collect"
       /\ Len(callers[c].batch) = 1
       /\ callers[c].batch[1].id = 2
       /\ callers[c].batch[1].v["sda"].readBytes >= 2
       /\ handed[1] = 1
       /\ callers[c].ret = DiskIOZero

\* three samples drained one at a time by three Collects
C39_ZeroForever ==
  /\ kind = "network"
  /\ appended = 3
  /\ \A id \in 1..3 : handed[id] = 1
  /\ \E c \in Callers :
       /\ callers[c].pc = "done"
       /\ Len(callers[c].batch) = 1
       /\ callers[c].batch[1].id = 3
       /\ callers[c].ret.SendMbps = RatZero

\* C13: Stop is safe in every state: it never touches the buffer or the
\* loops' positions, it does nothing but cancel the current context, and on a
\* sampler never started or already stopped it changes nothing at all.
C13_StopIsSafe ==
  [][Stop =>
       /\ samples' = samples
       /\ loops' = loops
       /\ cancelled' \subseteq cancelled \cup {ctx}
       /\ (ctx = 0 \/ ctx \in cancelled) => UNCHANGED vars]_vars

\* the sampler has been stopped with samples in its buffer and its loop gone:
\* any further Stop meets this state
C13_Witness ==
  /\ ctx = 1 /\ cancelled = {1}
  /\ loops[1].pc = "exit"
  /\ Len(samples) >= 1

\* C14: on a sampler started exactly once, after Stop the loop eventually
\* exits (under the fairness of SpecLive), and once it has exited no sample
\* is appended any more.
C14_LoopExitsAfterStop ==
  /\ (1 \in cancelled) ~> (loops[1].pc = "exit")
  /\ [][loops[1].pc = "exit" => (appended' = appended /\ samples' \in {samples, <<>>}
                                   /\ loops'[1].pc = "exit")]_vars

\* the loop has appended samples, was stopped and has exited
C14_Witness ==
  /\ cancelled = {1}
  /\ loops[1].pc = "exit"
  /\ appended >= 2

----------------------------------------------------------------------------
(* Properties of a sampler started twice (specification SpecRestart).      *)

\* C12 as stated: after Start, Start (and then Stop) the first loop is never
\* terminated.
C12_FirstLoopNeverExits ==
  (ctx = 2 /\ 1 \notin cancelled) => loops[1].pc # "exit"

\* C12, amended: the second Start discards the first cancel function, so the
\* first context is never cancelled afterwards; the first loop ends only
\* when its unsynchronised read of c.ctx has given it the second context and
\* that one is cancelled, and otherwise it keeps running.
C12_FirstContextLostLoopFollowsCtx ==
  [][/\ ctx = 2 => ((1 \in cancelled') <=> (1 \in cancelled))
     /\ (loops[1].pc # "exit" /\ loops'[1].pc = "exit" /\ 1 \notin cancelled) =>
          (loops[1].wait = 2 /\ 2 \in cancelled)]_vars

\* after Start, Start, Stop the second loop has exited while the first loop,
\* still waiting on the first context, has appended a sample taken after it
C12_Witness ==
  /\ ctx = 2 /\ cancelled = {2}
  /\ loops[2].pc = "exit"
  /\ loops[1].pc = "select" /\ loops[1].wait = 1
  /\ Len(samples) >= 1
  /\ samples[Len(samples)].ts = now
  /\ now >= 2

\* after Start, Start, Stop both loops have exited
C12_BothExited ==
  ctx = 2 /\ cancelled = {2} /\ loops[1].pc = "exit" /\ loops[2].pc = "exit"

----------------------------------------------------------------------------
(* Properties of the dynamic orchestrator (specification SpecDyn).         *)

\* C11: DynamicCollector.Collect never returns an error, and in the snapshot
\* it returns every field whose collector failed is nil and every field whose
\* collector succeeded holds that collector's result, whatever the other
\* branches did.
C11_CollectNeverFails ==
  dpc = "returned" =>
    /\ dret.err = "nil"
    /\ \A b \in Branches :
         /\ outcome[b] \in {"ok", "err"}
         /\ outcome[b] = "err" => dret.result[b] = "nil"
         /\ outcome[b] = "ok" => dret.result[b] = b

\* Collect has returned after some branches failed and others succeeded,
\* within the network goroutine too
C11_Witness ==
  /\ dpc = "returned"
  /\ outcome["CPU"] = "err" /\ outcome["Memory"] = "ok"
  /\ outcome["NetworkPublic"] = "err" /\ outcome["NetworkPrivate"] = "ok"
  /\ outcome["NetworkHealth"] = "err"

\* every branch has failed and Collect has returned
C11_AllFailed == dpc = "returned" /\ \A b \in Branches : outcome[b] = "err"

----------------------------------------------------------------------------
(* Properties of the agent control loop (specification SpecAgent).         *)

\* the step of collectAndSend in which sender.Send returns
SendStep == pc = "send" /\ pc' # "send"

\* the ticker case of the select in Start
TickStep == pc = "select" /\ tickerC /\ ~tickerC'

Succeeded(status) == status >= 200 /\ status < 300
NonAuthFailure(status) == ~Succeeded(status) /\ status # 401

\* C5 as stated: once a transmission has returned the authentication failure,
\* the process ends only with exit code 3, never with Start returning or with
\* another exit status.
C5_AuthFailedExitsWith3 ==
  (authFailed /\ exitCode # -1) => (exitCode = 3 /\ ~startReturned)

\* C6: after a transmission has returned the authentication failure no
\* collect-and-send cycle is started and sender.Send is not called again.
C6_NoCycleAfterAuthFailure ==
  [][authFailed => (cycles' = cycles /\ sent' = sent)]_vars

\* the authentication failure came after an earlier cycle, and the next tick
\* has ended the process
C6_Witness == authFailed /\ exitCode = 3 /\ Len(sent) >= 2 /\ cycles < MaxCycles

\* C7: a transmission failure other than the authentication failure keeps the
\* agent running (no flag changes, the process does not exit), adds exactly
\* one to errorCount, leaves metricsCount, lastCollection and lastSend as they
\* were, and the tick taken next starts a collect-and-send cycle.
C7_NonAuthFailureKeepsRunning ==
  [][/\ (SendStep /\ NonAuthFailure(lastStatus')) =>
          /\ running' = running
          /\ authFailed' = FALSE
          /\ exitCode' = -1
          /\ errorCount' = errorCount + 1
          /\ metricsCount' = metricsCount
          /\ lastCollection' = lastCollection
          /\ lastSend' = lastSend
     /\ (TickStep /\ lastStatus # -1 /\ NonAuthFailure(lastStatus)) =>
          /\ pc' = "cycle"
          /\ exitCode' = -1]_vars

\* after a success, a cycle failed with status 500 and the following tick has
\* started the next cycle
C7_Witness ==
  /\ lastStatus = 500
  /\ errorCount = 1
  /\ metricsCount = 1
  /\ pc = "cycle"
  /\ cycles = 2
  /\ running

\* C8: metricsCount never decreases; it grows by exactly one in a cycle whose
\* transmission succeeds, where lastCollection and lastSend get the same
\* instant, and it stays the same in every other step.
C8_SuccessCounter ==
  [][/\ metricsCount' >= metricsCount
     /\ IF SendStep /\ Succeeded(lastStatus')
        THEN /\ metricsCount' = metricsCount + 1
             /\ lastCollection' = clock
             /\ lastSend' = lastCollection'
        ELSE metricsCount' = metricsCount]_vars

\* two cycles succeeded and one failed, the last success later than the start
C8_Witness ==
  /\ metricsCount = 2
  /\ errorCount = 1
  /\ lastSend = lastCollection
  /\ lastSend > 1

\* C17 as stated: ShouldRefresh is true exactly when no static collection
\* has completed or the time since the last refresh exceeds the threshold; at
\* the threshold itself it is false.
C17_RefreshOnlyPastThreshold ==
  ShouldRefresh <=> (~cache \/ clock - lastRefresh > staticRefreshInterval)

\* C18: on entering the running state Start starts the samplers, then makes
\* one static collection, then one collect-and-send at once, and every
\* later collect-and-send follows a tick; nothing is handed to sender.Send
\* before the samplers were started and the initial static collection is done.
C18_StartupOrder ==
  [][/\ (pc = "new" /\ pc' # "new") =>
          \/ pc' = "static" /\ dyn' = "started" /\ ~cache' /\ cycles' = 0
          \/ pc' = "exited"
     /\ (pc = "static" /\ pc' # "static") =>
          pc' = "cycle" /\ cache' /\ cycles' = 0 /\ sent' = <<>>
     /\ (pc # "cycle" /\ pc' = "cycle") =>
          IF cycles = 0 THEN pc = "static" ELSE TickStep
     /\ sent' # sent => (dyn # "new" /\ cache /\ cycles >= 1)]_vars

\* the immediate cycle and one tick-driven cycle have both sent their payload
C18_Witness ==
  /\ Len(sent) = 2
  /\ cycles = 2
  /\ dyn = "started"
  /\ cache
  /\ pc = "select"

\* C19: collect-and-send cycles never overlap and are neither queued nor
\* retried: a cycle starts only when none is in flight, a cycle that ended,
\* failed or not, leaves the loop waiting in its select, every cycle after
\* the first consumes one tick, and the ticker holds at most one tick, so
\* ticks fired during a cycle lead to one following cycle.
C19_NoOverlapNoRetry ==
  [][/\ cycles' \in {cycles, cycles + 1}
     /\ cycles' = cycles + 1 => (pc = "cycle" /\ pc' = "dynamic")
     /\ pc \in {"dynamic", "send"} => pc' \in {pc, "send", "select"}
     /\ SendStep => (pc' = "select" /\ cycles' = cycles)
     /\ (pc # "cycle" /\ pc' = "cycle" /\ cycles >= 1) =>
          (TickStep /\ pc = "select" /\ ~tickerC')]_vars

\* a cycle has failed, the next tick has started the second cycle, and a tick
\* has fired while that one is running
C19_Witness ==
  /\ pc = "send"
  /\ tickerC
  /\ cycles = 2
  /\ errorCount = 1
  /\ metricsCount = 0

\* C20: only the authentication failure is terminal: Send maps exactly
\* status 401 to ErrUnauthorized (and exactly 2xx to success), authFailed is
\* set by a Send that got 401 and by nothing else, and every other failed
\* Send is a cycle failure that leaves authFailed false and the loop waiting.
C20_Only401IsTerminal ==
  [][/\ \A st \in HTTPStatuses :
          /\ HTTPSend(st) = "ErrUnauthorized" <=> st = 401
          /\ HTTPSend(st) = "nil" <=> Succeeded(st)
     /\ SendStep => (authFailed' <=> lastStatus' = 401)
     /\ (SendStep /\ NonAuthFailure(lastStatus')) =>
          (~authFailed' /\ errorCount' = errorCount + 1 /\ pc' = "select"
             /\ exitCode' = -1)
     /\ (authFailed' /\ ~authFailed) => SendStep]_vars

\* cycles have failed with 403 and with a request that got no response, and
\* the agent is still waiting for its next tick with authFailed false
C20_Witness ==
  /\ lastStatus \in {0, 403}
  /\ errorCount = 2
  /\ ~authFailed
  /\ pc = "select"
  /\ exitCode = -1

\* a stop has been asked for: the context is cancelled, Stop has been called
\* on the running agent, or SIGINT / SIGTERM sits in the agent's channel
StopAsked == ctxDone \/ stopChan = "closed" \/ sigChan \in {"SIGINT", "SIGTERM"}

\* the agent is stopped and its samplers are stopped
StoppedState == pc = "exited" /\ ~running /\ dyn = "stopped"

\* the signal case of the select takes a SIGHUP
SighupStep == pc = "select" /\ sigChan = "SIGHUP" /\ sigChan' = ""

\* SIGHUP leaves the agent running and the loop in its select
SighupKeepsRunning ==
  [][SighupStep =>
       /\ pc' = "select"
       /\ UNCHANGED <<running, stopChan, senderClosed, dyn, exitCode, startReturned,
                      authFailed, tickerC, cycles>>]_vars

----------------------------------------------------------------------------
(* Properties of the reducers (specification SpecReduce).                  *)

\* C22: disk-I/O Collect and network CollectByType on a drained batch of 0
\* or 1 samples return every rate exactly zero and no error.
C22_FewSamplesZeroRates ==
  (Reduced /\ kind \in {"diskio", "network"} /\ Len(rin.batch) < 2) =>
    /\ ~rout.err
    /\ IF kind = "diskio"
       THEN /\ rout.ReadMBps = <<0, 1>> /\ rout.WriteMBps = <<0, 1>>
            /\ rout.ReadIOPS = <<0, 1>> /\ rout.WriteIOPS = <<0, 1>>
       ELSE rout.SendMbps = <<0, 1>> /\ rout.RecvMbps = <<0, 1>>

\* disk-I/O Collect has returned for a batch of one sample whose counters
\* are not zero
C22_Witness ==
  /\ Reduced /\ kind = "diskio"
  /\ Len(rin.batch) = 1
  /\ rin.batch[1].v["sda"].readBytes > 0
  /\ ~rout.err

\* CollectByType has returned for a batch of one sample with traffic on an
\* interface of the type asked for
C22_NetworkOneSample ==
  /\ Reduced /\ kind = "network"
  /\ Len(rin.batch) = 1
  /\ rin.types["eth0"] = rin.ifaceType
  /\ rin.batch[1].v["eth0"].bytesSent > 0
  /\ ~rout.err

\* the sum of F over S, as integers
RECURSIVE PlainSum(_, _)
PlainSum(F(_), S) ==
  IF S = {} THEN 0
  ELSE LET x == CHOOSE y \in S : TRUE IN F(x) + PlainSum(F, S \ {x})

\* the devices (interfaces) listed in both samples
Common(prev, curr) == DOMAIN prev.v \cap DOMAIN curr.v

\* the interfaces of both samples that have the type asked for
CommonOfType(prev, curr) ==
  {i \in Common(prev, curr) : rin.types[i] = rin.ifaceType}

\* the 64-bit sum, over the devices in S, of the 64-bit differences of
\* counter f between prev and curr
ByteDelta(prev, curr, S, f(_)) ==
  PlainSum(LAMBDA d : (f(curr.v[d]) - f(prev.v[d]) + Uint64) % Uint64, S) % Uint64

\* x = n / d as fractions
RatIs(x, n, d) == x[1] * d = n * x[2]

\* C23: for a batch of exactly two samples taken 2 seconds apart, with byte
\* delta D over the devices (matching interfaces) listed in both, the rate
\* reported is D/2 bytes per second in the documented unit: D/2/1024/1024
\* MB/s for disk reads and writes, D*8/2/1,000,000 Mbps for the network.
C23_TwoSamplesRate ==
  (Reduced /\ Len(rin.batch) = 2 /\ rin.batch[2].ts - rin.batch[1].ts = 2) =>
    LET prev == rin.batch[1]
        curr == rin.batch[2]
    IN CASE kind = "diskio" ->
              /\ ~rout.err
              /\ RatIs(rout.ReadMBps,
                       ByteDelta(prev, curr, Common(prev, curr), LAMBDA st : st.readBytes),
                       2 * 1024 * 1024)
              /\ RatIs(rout.WriteMBps,
                       ByteDelta(prev, curr, Common(prev, curr), LAMBDA st : st.writeBytes),
                       2 * 1024 * 1024)
         [] kind = "network" ->
              /\ ~rout.err
              /\ RatIs(rout.SendMbps,
                       8 * ByteDelta(prev, curr, CommonOfType(prev, curr),
                                     LAMBDA st : st.bytesSent),
                       2 * 1000000)
              /\ RatIs(rout.RecvMbps,
                       8 * ByteDelta(prev, curr, CommonOfType(prev, curr),
                                     LAMBDA st : st.bytesRecv),
                       2 * 1000000)
         [] OTHER -> TRUE

\* two network samples 2 s apart, both interfaces public and listed in both,
\* with 4 + 7 bytes sent in between: 44 Mbps / 1,000,000 is reported
C23_Witness ==
  /\ Reduced /\ kind = "network"
  /\ Len(rin.batch) = 2
  /\ rin.batch[1].ts = 0 /\ rin.batch[2].ts = 2
  /\ rin.types["eth1"] = "public" /\ rin.ifaceType = "public"
  /\ DOMAIN rin.batch[1].v = Ifaces /\ DOMAIN rin.batch[2].v = Ifaces
  /\ rin.batch[1].v["eth0"].bytesSent = 1 /\ rin.batch[2].v["eth0"].bytesSent = 5
  /\ rin.batch[1].v["eth1"].bytesSent = 2 /\ rin.batch[2].v["eth1"].bytesSent = 9
  /\ rout.SendMbps = <<11, 250000>>

\* two disk samples 2 s apart with 4 bytes read in between: 2 bytes per
\* second, in MB/s
C23_DiskWitness ==
  /\ Reduced /\ kind = "diskio"
  /\ Len(rin.batch) = 2
  /\ rin.batch[1].ts = 2 /\ rin.batch[2].ts = 4
  /\ DOMAIN rin.batch[1].v = {"sda"} /\ DOMAIN rin.batch[2].v = {"sda"}
  /\ rin.batch[1].v["sda"].readBytes = 1 /\ rin.batch[2].v["sda"].readBytes = 5
  /\ rout.ReadMBps = <<1, 524288>>

\* seconds from sample i-1 to sample i of the batch
Elapsed(i) == rin.batch[i].ts - rin.batch[i - 1].ts

\* the consecutive pairs of the batch over which time has advanced
Advancing == {i \in 2..Len(rin.batch) : Elapsed(i) >= 1}

\* the devices (interfaces of the type asked for) that count in pair i
Counted(i) ==
  IF kind = "network" THEN CommonOfType(rin.batch[i - 1], rin.batch[i])
  ELSE Common(rin.batch[i - 1], rin.batch[i])

\* the mean, over the pairs in P, of the delta of counter f per second,
\* times mul and divided by div
MeanRate(P, f(_), mul, div) ==
  RatDiv(RatSum(LAMBDA i : Rat(mul * ByteDelta(rin.batch[i - 1], rin.batch[i], Counted(i), f),
                               Elapsed(i) * div), P),
         Cardinality(P))

\* C27: in the disk-I/O and network reductions a consecutive pair whose
\* elapsed time is <= 0 contributes nothing and does not count in the
\* divisor: every rate is the mean of the per-pair rates over the pairs with
\* elapsed time > 0, and all rates are zero when there is no such pair.
C27_MeanOverValidPairs ==
  (Reduced /\ kind \in {"diskio", "network"} /\ Len(rin.batch) >= 2) =>
    /\ ~rout.err
    /\ IF Advancing = {}
       THEN IF kind = "diskio"
            THEN /\ rout.ReadMBps = <<0, 1>> /\ rout.WriteMBps = <<0, 1>>
                 /\ rout.ReadIOPS = <<0, 1>> /\ rout.WriteIOPS = <<0, 1>>
            ELSE rout.SendMbps = <<0, 1>> /\ rout.RecvMbps = <<0, 1>>
       ELSE IF kind = "diskio"
            THEN /\ rout.ReadMBps =
                      MeanRate(Advancing, LAMBDA st : st.readBytes, 1, 1024 * 1024)
                 /\ rout.WriteMBps =
                      MeanRate(Advancing, LAMBDA st : st.writeBytes, 1, 1024 * 1024)
                 /\ rout.ReadIOPS = MeanRate(Advancing, LAMBDA st : st.readCount, 1, 1)
                 /\ rout.WriteIOPS = MeanRate(Advancing, LAMBDA st : st.writeCount, 1, 1)
            ELSE /\ rout.SendMbps =
                      MeanRate(Advancing, LAMBDA st : st.bytesSent, 8, 1000000)
                 /\ rout.RecvMbps =
                      MeanRate(Advancing, LAMBDA st : st.bytesRecv, 8, 1000000)

\* three disk samples stamped 2, 0 and 4: the clock went back over the first
\* pair, and the second pair alone (12 reads in 4 s) gives 3 reads per second
C27_Witness ==
  /\ Reduced /\ kind = "diskio"
  /\ Len(rin.batch) = 3
  /\ rin.batch[1].ts = 2 /\ rin.batch[2].ts = 0 /\ rin.batch[3].ts = 4
  /\ rin.batch[1].v["sda"].readCount = 15
  /\ rin.batch[2].v["sda"].readCount = 3
  /\ rin.batch[3].v["sda"].readCount = 15
  /\ rout.ReadIOPS = <<3, 1>>

\* three network samples with the same stamp and traffic in between: no pair
\* is valid and the rates are zero
C27_NoValidPair ==
  /\ Reduced /\ kind = "network"
  /\ Len(rin.batch) = 3
  /\ Advancing = {}
  /\ rin.types["eth0"] = rin.ifaceType
  /\ rin.batch[1].v["eth0"].bytesSent = 1 /\ rin.batch[3].v["eth0"].bytesSent = 5
  /\ rout.SendMbps = <<0, 1>>

\* the devices of sample i that neither neighbour of sample i lists
Lonely(i) ==
  {d \in DOMAIN rin.batch[i].v :
     /\ i > 1 => d \notin DOMAIN rin.batch[i - 1].v
     /\ i < Len(rin.batch) => d \notin DOMAIN rin.batch[i + 1].v}

\* the batch without the devices that are in one sample of a pair only
Stripped ==
  [i \in 1..Len(rin.batch) |->
     [rin.batch[i] EXCEPT !.v = [d \in DOMAIN rin.batch[i].v \ Lonely(i) |->
                                   rin.batch[i].v[d]]]]

\* the rates the reducer of this kind computes for batch b
RatesOf(b) ==
  IF kind = "diskio"
  THEN LET r == DiskIOReduce(b) IN <<r.ReadMBps, r.WriteMBps, r.ReadIOPS, r.WriteIOPS>>
  ELSE LET r == NetworkReduce(b, rin.types, rin.ifaceType) IN <<r.SendMbps, r.RecvMbps>>

\* C28: the delta of a consecutive pair is the sum over exactly the devices
\* (interfaces of the type asked for) listed in both samples of the pair: for
\* a batch of one valid pair each rate is that sum per second, and for any
\* batch the rates are the same as for the batch without the devices that
\* are listed in one sample of a pair only.
C28_OnlyDevicesInBoth ==
  (Reduced /\ kind \in {"diskio", "network"} /\ Len(rin.batch) >= 2) =>
    /\ ~rout.err
    /\ (IF kind = "diskio"
        THEN <<rout.ReadMBps, rout.WriteMBps, rout.ReadIOPS, rout.WriteIOPS>>
        ELSE <<rout.SendMbps, rout.RecvMbps>>) = RatesOf(Stripped)
    /\ (Len(rin.batch) = 2 /\ Elapsed(2) > 0) =>
         LET prev == rin.batch[1]
             curr == rin.batch[2]
         IN IF kind = "diskio"
            THEN /\ RatIs(rout.ReadIOPS,
                          ByteDelta(prev, curr, Common(prev, curr),
                                    LAMBDA st : st.readCount), Elapsed(2))
                 /\ RatIs(rout.WriteIOPS,
                          ByteDelta(prev, curr, Common(prev, curr),
                                    LAMBDA st : st.writeCount), Elapsed(2))
            ELSE /\ RatIs(rout.SendMbps,
                          8 * ByteDelta(prev, curr, CommonOfType(prev, curr),
                                        LAMBDA st : st.bytesSent),
                          Elapsed(2) * 1000000)
                 /\ RatIs(rout.RecvMbps,
                          8 * ByteDelta(prev, curr, CommonOfType(prev, curr),
                                        LAMBDA st : st.bytesRecv),
                          Elapsed(2) * 1000000)

\* sdb is listed in the first sample and gone in the second one: the 12
\* reads of sda in 2 s are the whole delta
C28_Witness ==
  /\ Reduced /\ kind = "diskio"
  /\ Len(rin.batch) = 2
  /\ rin.batch[1].ts = 0 /\ rin.batch[2].ts = 2
  /\ DOMAIN rin.batch[1].v = {"sda", "sdb"} /\ DOMAIN rin.batch[2].v = {"sda"}
  /\ rin.batch[1].v["sda"].readCount = 3 /\ rin.batch[2].v["sda"].readCount = 15
  /\ rin.batch[1].v["sdb"].readCount = 27
  /\ rout.ReadIOPS = <<6, 1>>

\* eth1, of the type asked for, appears in the second sample only and adds
\* nothing to the 4 bytes sent by eth0
C28_NewInterface ==
  /\ Reduced /\ kind = "network"
  /\ Len(rin.batch) = 2
  /\ rin.batch[1].ts = 0 /\ rin.batch[2].ts = 4
  /\ rin.types["eth1"] = rin.ifaceType /\ rin.types["eth0"] = rin.ifaceType
  /\ DOMAIN rin.batch[1].v = {"eth0"} /\ DOMAIN rin.batch[2].v = {"eth0", "eth1"}
  /\ rin.batch[1].v["eth0"].bytesSent = 1 /\ rin.batch[2].v["eth0"].bytesSent = 5
  /\ rin.batch[2].v["eth1"].bytesSent = 9
  /\ rout.SendMbps = <<1, 125000>>

\* (sum of counter f in the current sample - sum in the previous one) modulo
\* the width of the counters, over the devices that count in pair i
WrapDelta(i, f(_)) ==
  LET S == Counted(i)
      cur == PlainSum(LAMBDA d : f(rin.batch[i].v[d]), S)
      prv == PlainSum(LAMBDA d : f(rin.batch[i - 1].v[d]), S)
  IN (cur - prv + Cardinality(S) * Uint64) % Uint64

\* the mean over the pairs in P of WrapDelta per second, times mul, by div
MeanWrapRate(P, f(_), mul, div) ==
  RatDiv(RatSum(LAMBDA i : Rat(mul * WrapDelta(i, f), Elapsed(i) * div), P),
         Cardinality(P))

\* some counter of a device that counts in pair i went down
WentDown(i, f(_)) ==
  \E d \in Counted(i) : f(rin.batch[i].v[d]) < f(rin.batch[i - 1].v[d])

\* C29: counter deltas are unsigned 64-bit subtractions: a pair in which a
\* counter went down is not skipped, its delta is (current - previous)
\* modulo 2^64, and the delta of a pair is (sum of current - sum of
\* previous) modulo 2^64; the rates are the means of these deltas per second.
C29_UnsignedDeltas ==
  (Reduced /\ kind \in {"diskio", "network"} /\ Advancing # {}) =>
    /\ ~rout.err
    /\ IF kind = "diskio"
       THEN /\ rout.ReadMBps =
                 MeanWrapRate(Advancing, LAMBDA st : st.readBytes, 1, 1024 * 1024)
            /\ rout.WriteMBps =
                 MeanWrapRate(Advancing, LAMBDA st : st.writeBytes, 1, 1024 * 1024)
            /\ rout.ReadIOPS = MeanWrapRate(Advancing, LAMBDA st : st.readCount, 1, 1)
            /\ rout.WriteIOPS = MeanWrapRate(Advancing, LAMBDA st : st.writeCount, 1, 1)
       ELSE /\ rout.SendMbps =
                 MeanWrapRate(Advancing, LAMBDA st : st.bytesSent, 8, 1000000)
            /\ rout.RecvMbps =
                 MeanWrapRate(Advancing, LAMBDA st : st.bytesRecv, 8, 1000000)
    /\ (kind = "diskio" /\ Len(rin.batch) = 2
          /\ WentDown(2, LAMBDA st : st.readBytes)
          /\ WrapDelta(2, LAMBDA st : st.readBytes) # 0) => rout.ReadMBps # <<0, 1>>

\* both disks' read counters went down between two samples 2 s apart
\* (5 -> 1 and 9 -> 2, on counters that wrap at Uint64 = 32): the deltas 28
\* and 25 add up to 21 modulo 32, and 21 bytes in 2 s are reported
C29_Witness ==
  /\ Reduced /\ kind = "diskio"
  /\ Len(rin.batch) = 2
  /\ rin.batch[1].ts = 0 /\ rin.batch[2].ts = 2
  /\ DOMAIN rin.batch[1].v = {"sda", "sdb"} /\ DOMAIN rin.batch[2].v = {"sda", "sdb"}
  /\ rin.batch[1].v["sda"].readBytes = 5 /\ rin.batch[2].v["sda"].readBytes = 1
  /\ rin.batch[1].v["sdb"].readBytes = 9 /\ rin.batch[2].v["sdb"].readBytes = 2
  /\ rout.ReadMBps = <<21, 2097152>>

\* the 64-bit sum of counter f over the interfaces of the newest sample of
\* the batch that have the type asked for
LastTotal(f(_)) ==
  LET last == rin.batch[Len(rin.batch)]
  IN PlainSum(LAMBDA i : f(last.v[i]),
              {i \in DOMAIN last.v : rin.types[i] = rin.ifaceType}) % Uint64

\* the totals reported are those of the newest sample, in GB
TotalsFromLast ==
  /\ ~rout.err
  /\ rout.TotalSentGB = Rat(LastTotal(LAMBDA st : st.bytesSent), 1000000000)
  /\ rout.TotalRecvGB = Rat(LastTotal(LAMBDA st : st.bytesRecv), 1000000000)

\* C30 as stated: for every non-empty drained batch, one sample included,
\* CollectByType reports as cumulative totals the sums of the byte counters
\* of the interfaces of the type asked for in the newest sample of the batch.
C30_TotalsFromLastSample ==
  (Reduced /\ kind = "network" /\ Len(rin.batch) >= 1) => TotalsFromLast

\* the totals are those of the newest sample whenever the batch holds two
\* samples or more
C30_TotalsFromLastOfTwoOrMore ==
  (Reduced /\ kind = "network" /\ Len(rin.batch) >= 2) => TotalsFromLast

\* CollectByType has reported the totals 14 and 28 bytes of the two public
\* interfaces of the newest of three samples
C30_ThreeSamples ==
  /\ Reduced /\ kind = "network"
  /\ Len(rin.batch) = 3
  /\ rin.types["eth1"] = "public" /\ rin.ifaceType = "public"
  /\ DOMAIN rin.batch[3].v = Ifaces
  /\ rin.batch[3].v["eth0"].bytesSent = 5 /\ rin.batch[3].v["eth1"].bytesSent = 9
  /\ rout.TotalSentGB = <<7, 500000000>>
  /\ rout.TotalRecvGB = <<7, 250000000>>

\* C24: CPU Collect returns as usage the arithmetic mean of the drained
\* samples' percentages, and 0 for an empty batch, with the load averages
\* just queried; when the load-average query fails it returns an error and
\* no metrics.
C24_CPUMean ==
  (Reduced /\ kind = "cpu") =>
    IF rin.loadAvg.err
    THEN rout = [err |-> TRUE]
    ELSE /\ ~rout.err
         /\ IF Len(rin.batch) = 0
            THEN rout.UsagePercent = <<0, 1>>
            ELSE RatIs(rout.UsagePercent,
                       PlainSum(LAMBDA i : rin.batch[i].v, 1..Len(rin.batch)),
                       Len(rin.batch))
         /\ rout.LoadAvg1m = <<rin.loadAvg.Load1, 1>>
         /\ rout.LoadAvg5m = <<rin.loadAvg.Load5, 1>>
         /\ rout.LoadAvg15m = <<rin.loadAvg.Load15, 1>>

\* the samples 50, 75 and 0 are reduced to 125/3 percent
C24_Witness ==
  /\ Reduced /\ kind = "cpu"
  /\ ~rin.loadAvg.err /\ rin.loadAvg.Load1 = 3
  /\ Len(rin.batch) = 3
  /\ rin.batch[1].v = 50 /\ rin.batch[2].v = 75 /\ rin.batch[3].v = 0
  /\ rout.UsagePercent = <<125, 3>>

\* the load-average query failed while samples were buffered
C24_LoadFailed ==
  /\ Reduced /\ kind = "cpu"
  /\ rin.loadAvg.err
  /\ Len(rin.batch) >= 1
  /\ rout.err

\* q is the integer quotient of total by n, rounded down
FloorIs(q, total, n) == q * n <= total /\ total < (q + 1) * n

\* the sum of integer field f over the batch
FieldSum(f(_)) == PlainSum(LAMBDA i : f(rin.batch[i].v), 1..Len(rin.batch))

\* C25: memory Collect on a non-empty batch returns for each integer field
\* the sum of the field over the drained samples divided by the number of
\* drained samples (not by the capacity), rounded down; on an empty batch it
\* returns what one fresh instantaneous query gives, not zeros.
C25_MemoryMean ==
  (Reduced /\ kind = "memory") =>
    IF Len(rin.batch) = 0
    THEN IF rin.answer.err
         THEN rout.err
         ELSE /\ ~rout.err
              /\ rout.Total = rin.answer.vmem.total
              /\ rout.Used = rin.answer.vmem.used
              /\ rout.Free = rin.answer.vmem.free
              /\ rout.Available = rin.answer.vmem.available
              /\ rout.UsedPercent = <<rin.answer.vmem.usedPercent, 1>>
              /\ rout.Cached = rin.answer.vmem.cached
              /\ rout.Buffers = rin.answer.vmem.buffers
    ELSE LET n == Len(rin.batch) IN
         /\ ~rout.err
         /\ FloorIs(rout.Total, FieldSum(LAMBDA v : v.total), n)
         /\ FloorIs(rout.Used, FieldSum(LAMBDA v : v.used), n)
         /\ FloorIs(rout.Free, FieldSum(LAMBDA v : v.free), n)
         /\ FloorIs(rout.Available, FieldSum(LAMBDA v : v.available), n)
         /\ FloorIs(rout.Cached, FieldSum(LAMBDA v : v.cached), n)
         /\ FloorIs(rout.Buffers, FieldSum(LAMBDA v : v.buffers), n)
         /\ RatIs(rout.UsedPercent, FieldSum(LAMBDA v : v.usedPercent), n)

\* three samples, one more than the capacity of the model's buffer, with
\* 2, 5 and 6 units used: 13 / 3 is reported as 4
C25_Witness ==
  /\ Reduced /\ kind = "memory"
  /\ Len(rin.batch) = 3
  /\ rin.batch[1].v.used = 2 /\ rin.batch[2].v.used = 5 /\ rin.batch[3].v.used = 6
  /\ rout.Used = 4
  /\ rout.Total = 8

\* the batch is empty and the fresh query's figures are returned
C25_EmptyBatch ==
  /\ Reduced /\ kind = "memory"
  /\ Len(rin.batch) = 0
  /\ ~rin.answer.err
  /\ rout.Used = 5

Scheduled == uninstall # "sleeping" /\ uninstall' = "sleeping"

\* C33: the uninstall goroutine is spawned only in a cycle whose transmission
\* succeeded, in the step that adds one to metricsCount, and collectAndSend
\* returns to the select without waiting for it; a list of commands without
\* "uninstall" leaves the agent as an empty list does; the script is run later
\* by a step that does not touch the control loop, and a tick taken without an
\* authentication failure starts the next cycle whether or not an uninstall is
\* pending.
C33_CommandsAfterSuccess ==
  /\ [](\A cmds \in CommandLists :
          (\A i \in 1..Len(cmds) : cmds[i] # "uninstall") =>
             ProcessServerCommands(cmds) = uninstall)
  /\ [][/\ (uninstall' # uninstall) =>
             \/ /\ Scheduled
                /\ SendStep
                /\ Succeeded(lastStatus')
                /\ metricsCount' = metricsCount + 1
                /\ pc' = "select"
             \/ /\ uninstall = "sleeping"
                /\ uninstall' = "run"
                /\ pc' = pc
                /\ cycles' = cycles
                /\ tickerC' = tickerC
        /\ (TickStep /\ ~authFailed) => pc' = "cycle"]_vars

\* the first cycle scheduled the uninstall, and the next tick has started the
\* second cycle while the goroutine is still asleep
C33_Witness ==
  /\ uninstall = "sleeping"
  /\ pc = "cycle"
  /\ cycles = 1
  /\ metricsCount = 1
  /\ errorCount = 0

\* the script was run while a later cycle was under way
C33_ScriptRunDuringCycle ==
  /\ uninstall = "run"
  /\ pc = "send"
  /\ cycles = 2
  /\ metricsCount = 1

\* a collectAndSend that has started and has not yet called sender.Send
InFlight == IF pc \in {"dynamic", "send"} THEN 1 ELSE 0

\* C34: on a machine where every sub-collection of the dynamic orchestrator
\* fails, every collectAndSend that has started calls sender.Send exactly once:
\* the payloads handed to Send are the cycles started less the one under way,
\* the dynamic collection is always followed by the Send and never by the
\* return that adds one to errorCount, and the Send hands over one payload.
C34_EveryCycleSendsOnce ==
  /\ [](Len(sent) = cycles - InFlight)
  /\ [][/\ (pc = "cycle" /\ pc' # "cycle") => (pc' = "dynamic" /\ cycles' = cycles + 1)
        /\ (pc = "dynamic" /\ pc' # "dynamic") =>
             /\ pc' = "send"
             /\ errorCount' = errorCount
             /\ sent' = sent
        /\ SendStep => Len(sent') = Len(sent) + 1]_vars

\* on the broken machine two cycles have run, both payloads went out and were
\* accepted, and no error was counted
C34_Witness ==
  /\ host = "broken"
  /\ cycles = 2
  /\ Len(sent) = 2
  /\ metricsCount = 2
  /\ errorCount = 0
  /\ pc = "select"

\* a static collection has just been made: the initial one of Start, or the
\* refresh of a cycle
StaticCollected ==
  \/ pc = "static" /\ pc' = "cycle"
  \/ pc = "cycle" /\ pc' = "dynamic" /\ (~cache \/ clock - lastRefresh >= staticRefreshInterval)

\* C40: on a machine where every static probe fails, each static Collect
\* still returns no error (in a cycle its result goes into the payload),
\* leaves the cache set and the refresh time at the current instant, so that
\* ShouldRefresh is false right after it; and a cycle that starts less than
\* the refresh interval after it makes no static collection: the refresh time
\* stays and the payload carries no static part.
C40_FailedStaticNotRetried ==
  /\ [](\A failed \in SUBSET Probes : StaticCollect(failed).err = "nil")
  /\ [][/\ StaticCollected =>
             /\ cache'
             /\ lastRefresh' = clock
             /\ ~ShouldRefresh'
             /\ (pc = "cycle" => staticMetrics')
        /\ (pc = "cycle" /\ pc' # "cycle" /\ cache /\ clock - lastRefresh < staticRefreshInterval) =>
             /\ ~ShouldRefresh
             /\ lastRefresh' = lastRefresh
             /\ cache' = cache
             /\ ~staticMetrics']_vars

\* on the broken machine the initial collection was made at 1; half an hour
\* later two cycles have been sent, neither with a static part, and the
\* refresh time is still 1
C40_Witness ==
  /\ host = "broken"
  /\ cache
  /\ lastRefresh = 1
  /\ clock = 2
  /\ Len(sent) = 2
  /\ \A i \in 1..2 : ~sent[i].static
  /\ ~ShouldRefresh

\* the static collection is made again once an hour has passed
C40_RefreshedAfterAnHour ==
  /\ host = "broken"
  /\ lastRefresh = 3
  /\ Len(sent) = 2
  /\ ~sent[1].static
  /\ sent[2].static

\* C35 as stated: whatever Start and Stop calls are made on one agent, Stop
\* never panics on a second close of the stop channel, and whenever Start has
\* returned the running flag is false.
C35_StartStopSafe ==
  /\ exitCode # 2
  /\ startReturned => ~running

\* Start, Stop, Start: the second Start has returned through the stop channel
\* that the first Stop closed, and left the running flag set
C35_ReturnedWhileRunning ==
  /\ startReturned
  /\ running
  /\ stopChan = "closed"
  /\ exitCode = 0

\* Start, Stop, Start, Stop: the second Stop closed the closed channel
C35_SecondStopPanics ==
  /\ exitCode = 2
  /\ running
  /\ stopChan = "closed"

\* the network goroutine's CollectHealth has just run
HealthStep == net'.step = net.step + 1 /\ callers["c1"].pc = "idle"

\* C31: CollectHealth changes nothing in the sampler: the buffer, the
\* classification cache, the mutex and the drain history are as before; what
\* it returns is, field by field, the sum of the counter over both interfaces
\* of the newest buffered sample, whatever their labels, and all zeros when
\* the buffer is empty.
C31_HealthReadsOnly ==
  [][HealthStep =>
       /\ samples' = samples
       /\ interfaceTypes' = interfaceTypes
       /\ mu' = mu
       /\ handed' = handed
       /\ sinceDrain' = sinceDrain
       /\ lastDrain' = lastDrain
       /\ LET h == net'.ret["health"] IN
            IF samples = <<>>
            THEN h = [err |-> FALSE, ErrorsIn |-> 0, ErrorsOut |-> 0, DropsIn |-> 0,
                      DropsOut |-> 0]
            ELSE LET last == samples[Len(samples)] IN
                   /\ ~h.err
                   /\ h.ErrorsIn = PlainSum(LAMBDA i : last.v[i].errorsIn, Ifaces) % Uint64
                   /\ h.ErrorsOut = PlainSum(LAMBDA i : last.v[i].errorsOut, Ifaces) % Uint64
                   /\ h.DropsIn = PlainSum(LAMBDA i : last.v[i].dropsIn, Ifaces) % Uint64
                   /\ h.DropsOut = PlainSum(LAMBDA i : last.v[i].dropsOut, Ifaces) % Uint64]_vars

\* CollectHealth has returned the counters of a sample appended after the
\* drain of CollectPrivate, one interface public and one private, both
\* counted; the sample is still in the buffer
C31_Witness ==
  /\ net.step = 3
  /\ net.since["health"] = 1
  /\ sinceDrain = 1
  /\ Len(samples) = 1
  /\ interfaceTypes["eth0"] = "public"
  /\ interfaceTypes["eth1"] = "private"
  /\ samples[1].v["eth0"].errorsIn > 0
  /\ net.ret["health"].ErrorsIn =
       samples[1].v["eth0"].errorsIn + samples[1].v["eth1"].errorsIn
  /\ net.ret["health"].DropsOut =
       samples[1].v["eth0"].dropsOut + samples[1].v["eth1"].dropsOut

\* CollectHealth on the buffer that CollectPrivate has just emptied
C31_EmptyBuffer ==
  /\ net.step = 3
  /\ net.since["health"] = 0
  /\ appended >= 2
  /\ net.ret["health"].ErrorsIn = 0
  /\ net.ret["health"].DropsOut = 0

\* a drain by the network goroutine
NetDrain(op) ==
  callers["c1"].pc = "copied" /\ callers'["c1"].pc = "done" /\ callers["c1"].op = op

\* C37: in each cycle the network goroutine drains for the public traffic
\* first, then for the private traffic, then reads the health counters; the
\* private result is made only of samples appended after the public drain and
\* is all zeros when there is none; and when no sample was appended after the
\* public drain, the cycle's private and health results are all zeros.
C37_PrivateAndHealthAfterPublic ==
  /\ [][/\ NetDrain("public") => net.step = 0
        /\ NetDrain("private") =>
             /\ net.step = 1
             /\ lastDrain = "public"
             /\ \A i \in 1..Len(callers["c1"].batch) :
                  callers["c1"].batch[i].id > appended - sinceDrain
             /\ sinceDrain = 0 => callers'["c1"].ret = NetworkZero
        /\ HealthStep => (net.step = 2 /\ lastDrain = "private")]_vars
  /\ []((net.step = 3 /\ net.since["private"] = 0 /\ net.since["health"] = 0) =>
          /\ net.ret["private"] = NetworkZero
          /\ net.ret["health"] = NetworkHealthZero)

\* a cycle in which CollectPublic drained two samples of real traffic, with an
\* interface of each type, and no sample came after: public rates and totals
\* are not zero, private and health are all zeros
C37_Witness ==
  /\ net.step = 3
  /\ net.since["public"] = 2
  /\ net.since["private"] = 0
  /\ net.since["health"] = 0
  /\ interfaceTypes["eth0"] = "public"
  /\ interfaceTypes["eth1"] = "private"
  /\ net.ret["public"].SendMbps # RatZero
  /\ net.ret["public"].TotalSentGB # RatZero
  /\ net.ret["private"] = NetworkZero
  /\ net.ret["health"] = NetworkHealthZero

\* two samples came between the two drains: the private result has the rate
\* of that pair
C37_PrivateFromLaterSamples ==
  /\ net.step = 3
  /\ net.since["public"] = 1
  /\ net.since["private"] = 2
  /\ interfaceTypes["eth1"] = "private"
  /\ net.ret["private"].SendMbps # RatZero

\* C9 as stated: the first payload handed to sender.Send after Start carries
\* the static metrics.
C9_FirstPayloadHasStatic == Len(sent) >= 1 => sent[1].static

====
